---- MODULE Spec2Model ----
(***************************************************************************)
(* Model of the topology virtualization engine of CpuLimiter.c: the fixed  *)
(* topology cache (CacheCPUInfo / MyGetLogicalProcessorInformation), the   *)
(* extended topology cache (CacheCPUInfoExLocked /                         *)
(* MyGetLogicalProcessorInformationEx), the SRW lock CPUInfoLock and       *)
(* RestoreDetours.                                                         *)
(*                                                                         *)
(* A 64-bit mask is the set of its set bit positions (a subset of 0..63):  *)
(* a & b is the intersection, a != 0 is non-emptiness.  A buffer is the    *)
(* sequence of the records laid out in it; byte sizes are kept as the      *)
(* numbers the x64 structure layouts give.                                 *)
(***************************************************************************)
EXTENDS Integers, Sequences, FiniteSets, TLC

(* ------------------------------ bounds --------------------------------- *)
NumThreads == 2
MaxCalls == 2
MaxSeqCalls == 4
MaxFaults == 1
MaxRecs == 2
MaxClampCalls == 2
MaxLifeCalls == 2
MaxAttach == 2
MaxWalkRecs == 2
SlackWords == 10

(* ------------------------- program constants --------------------------- *)
kNumCpus == 24
kCpuMask == 0 .. (kNumCpus - 1)

NULL == 0
MAXIMUM_PROCESSORS == 64

\* A DWORD is kept as the two's complement reading of its 32 bits, so (DWORD)-1
\* is -1; the unsigned comparison and remainder of the code are taken on the
\* unsigned value.
DwordMinusOne == 0 - 1
DwordGe(a, b) == IF (a < 0) = (b < 0) THEN a >= b ELSE a < 0
DwordMod(a, n) ==
    IF a >= 0 THEN a % n ELSE ((a % n) + ((65536 % n) * (65536 % n))) % n
RelationNone == 0 - 1

RelationProcessorCore == 0
RelationNumaNode == 1
RelationCache == 2
RelationProcessorPackage == 3
RelationGroup == 4
RelationProcessorDie == 5
RelationNumaNodeEx == 6
RelationProcessorModule == 7
RelationUnknown == 8

ProcessorKinds ==
    {RelationProcessorCore, RelationProcessorDie, RelationProcessorModule, RelationProcessorPackage}
NumaKinds == {RelationNumaNode, RelationNumaNodeEx}

\* x64 layouts: sizeof(SYSTEM_LOGICAL_PROCESSOR_INFORMATION), sizeof(GROUP_AFFINITY),
\* sizeof(PROCESSOR_GROUP_INFO), and the offsets of the first group entry in each payload.
SizeofInfo == 32
SizeofGroupAffinity == 16
SizeofGroupInfo == 48
OffsetProcessorGroupMask == 32
OffsetNumaGroupMask == 32
OffsetCacheGroupMask == 40
OffsetGroupInfo == 32

MaskAnd(a, b) == a \cap b
Min(a, b) == IF a < b THEN a ELSE b

RECURSIVE SumSize(_)
SumSize(s) == IF s = <<>> THEN 0 ELSE Head(s).Size + SumSize(Tail(s))

(* --------------------- provider record constructors -------------------- *)
GA(mask, group) == [Mask |-> mask, Group |-> group]
GI(maxc, actc, mask) ==
    [MaximumProcessorCount |-> maxc, ActiveProcessorCount |-> actc, ActiveProcessorMask |-> mask]

FixedRec(id, kind, mask) == [id |-> id, Relationship |-> kind, ProcessorMask |-> mask]

EntryOffset(kind) ==
    IF kind \in ProcessorKinds THEN OffsetProcessorGroupMask
    ELSE IF kind \in NumaKinds THEN OffsetNumaGroupMask
    ELSE IF kind = RelationCache THEN OffsetCacheGroupMask
    ELSE OffsetGroupInfo

\* A Core/Die/Module/Package, NumaNode/NumaNodeEx or Cache record with the group
\* entries physically present in it (GroupMask and GroupMasks[] are one union, so
\* one entry is always there, whatever GroupCount says).
MaskRec(id, kind, gc, entries) ==
    [id |-> id, Relationship |-> kind,
     Size |-> EntryOffset(kind) + SizeofGroupAffinity * Len(entries),
     GroupCount |-> gc, GroupMask |-> entries]

GroupRec(id, maxg, actg, infos) ==
    [id |-> id, Relationship |-> RelationGroup,
     Size |-> OffsetGroupInfo + SizeofGroupInfo * Len(infos),
     MaximumGroupCount |-> maxg, ActiveGroupCount |-> actg, GroupInfo |-> infos]

OtherRec(id, kind, size) == [id |-> id, Relationship |-> kind, Size |-> size]

(* ----------------------------- filtering ------------------------------- *)
\* The walk without the rewrite of the kept record's mask.
RECURSIVE FixedWalkNoRewrite(_, _, _)
FixedWalkNoRewrite(buf, read, write) ==
    IF read > Len(buf) THEN SubSeq(buf, 1, write - 1)
    ELSE IF MaskAnd(buf[read].ProcessorMask, kCpuMask) # {}
         THEN FixedWalkNoRewrite(IF read # write THEN [buf EXCEPT ![write] = buf[read]] ELSE buf,
                                 read + 1, write + 1)
         ELSE FixedWalkNoRewrite(buf, read + 1, write)

\* CacheCPUInfo, the loop of lines 800-811: read and write walk the scratch array.
RECURSIVE FixedWalk(_, _, _)
FixedWalk(buf, read, write) ==
    IF read > Len(buf) THEN SubSeq(buf, 1, write - 1)
    ELSE IF MaskAnd(buf[read].ProcessorMask, kCpuMask) # {}
         THEN LET b1 == [buf EXCEPT ![read].ProcessorMask = MaskAnd(@, kCpuMask)]
                  b2 == IF read # write THEN [b1 EXCEPT ![write] = b1[read]] ELSE b1
              IN  FixedWalk(b2, read + 1, write + 1)
         ELSE FixedWalk(buf, read + 1, write)

FilterFixed(raw) == FixedWalk(raw, 1, 1)

\* A processor case that lets a record with no group through.
ReduceProcessorKeepsZero(r) ==
    IF MaskAnd(r.GroupMask[1].Mask, kCpuMask) = {} THEN [keep |-> FALSE]
    ELSE [keep |-> TRUE,
          size |-> OffsetProcessorGroupMask + SizeofGroupAffinity,
          rec |-> [r EXCEPT !.GroupCount = IF @ > 1 THEN 1 ELSE @,
                            !.GroupMask[1].Mask = MaskAnd(@, kCpuMask)]]

\* The switch of lines 866-920 on one record: the verdict and the rewritten record.
ReduceProcessor(r) ==
    IF r.GroupCount = 0 THEN [keep |-> FALSE]
    ELSE IF MaskAnd(r.GroupMask[1].Mask, kCpuMask) = {} THEN [keep |-> FALSE]
    ELSE [keep |-> TRUE,
          size |-> OffsetProcessorGroupMask + SizeofGroupAffinity,
          rec |-> [r EXCEPT !.GroupCount = IF @ > 1 THEN 1 ELSE @,
                            !.GroupMask[1].Mask = MaskAnd(@, kCpuMask)]]

ReduceNumaOrCache(r) ==
    IF MaskAnd(r.GroupMask[1].Mask, kCpuMask) = {} THEN [keep |-> FALSE]
    ELSE [keep |-> TRUE,
          size |-> EntryOffset(r.Relationship) + SizeofGroupAffinity,
          rec |-> [r EXCEPT !.GroupCount = IF @ > 1 THEN 1 ELSE @,
                            !.GroupMask[1].Mask = MaskAnd(@, kCpuMask)]]

\* A Group case that leaves the first group's processor counts alone.
ReduceGroupCountsKept(r) ==
    IF r.ActiveGroupCount = 0 THEN [keep |-> FALSE]
    ELSE [keep |-> TRUE,
          size |-> OffsetGroupInfo + SizeofGroupInfo,
          rec |-> [r EXCEPT
                     !.MaximumGroupCount = IF @ > 1 THEN 1 ELSE @,
                     !.ActiveGroupCount = IF @ > 1 THEN 1 ELSE @,
                     !.GroupInfo[1].ActiveProcessorMask = MaskAnd(@, kCpuMask)]]

\* The Group case, lines 901-914.
ReduceGroup(r) ==
    IF r.ActiveGroupCount = 0 THEN [keep |-> FALSE]
    ELSE [keep |-> TRUE,
          size |-> OffsetGroupInfo + SizeofGroupInfo,
          rec |-> [r EXCEPT
                     !.MaximumGroupCount = IF @ > 1 THEN 1 ELSE @,
                     !.ActiveGroupCount = IF @ > 1 THEN 1 ELSE @,
                     !.GroupInfo[1].ActiveProcessorCount = IF @ > kNumCpus THEN kNumCpus ELSE @,
                     !.GroupInfo[1].MaximumProcessorCount = IF @ > kNumCpus THEN kNumCpus ELSE @,
                     !.GroupInfo[1].ActiveProcessorMask = MaskAnd(@, kCpuMask)]]

\* A default case that lets a record of an unknown kind through as it came.
ReduceOtherKept(r) == [keep |-> TRUE, size |-> r.Size, rec |-> r]

\* The default case, lines 916-920.
ReduceOther(r) == [keep |-> FALSE]

Reduce(r) ==
    IF r.Relationship \in ProcessorKinds THEN ReduceProcessor(r)
    ELSE IF r.Relationship \in NumaKinds \cup {RelationCache} THEN ReduceNumaOrCache(r)
    ELSE IF r.Relationship = RelationGroup THEN ReduceGroup(r)
    ELSE ReduceOther(r)

\* A move that forgets to store the reduced size.
TruncateKeepsSize(r, size) ==
    IF r.Relationship = RelationGroup
    THEN [r EXCEPT !.GroupInfo = SubSeq(@, 1, 1)]
    ELSE [r EXCEPT !.GroupMask = SubSeq(@, 1, 1)]

\* memmove(write, read, size); write->Size = size: the first size bytes of the
\* record, that is its fields up to and including the first group entry.
Truncate(r, size) ==
    IF r.Relationship = RelationGroup
    THEN [r EXCEPT !.GroupInfo = SubSeq(@, 1, 1), !.Size = size]
    ELSE [r EXCEPT !.GroupMask = SubSeq(@, 1, 1), !.Size = size]

\* CacheCPUInfoExLocked, the loop of lines 862-929: out is what lies before the
\* write cursor.
RECURSIVE ExWalk(_, _, _)
ExWalk(buf, read, out) ==
    IF read > Len(buf) THEN out
    ELSE LET v == Reduce(buf[read])
         IN  IF v.keep
             THEN ExWalk(buf, read + 1, Append(out, Truncate(v.rec, v.size)))
             ELSE ExWalk(buf, read + 1, out)

FilterEx(raw) == ExWalk(raw, 1, <<>>)

(* ------------------- the extended walk, byte by byte ------------------- *)
\* The scratch buffer is a sequence of 8-byte words, a word being the set of its
\* bits that are 1 (bit 0 the lowest bit of the first byte).  Offsets and cursors
\* count words; word i of the buffer is mem[i + 1].
WordBytes == 8
FieldBits == 20

Max(a, b) == IF a > b THEN a ELSE b

RECURSIVE Pow2(_)
Pow2(n) == IF n = 0 THEN 1 ELSE 2 * Pow2(n - 1)

Huge == Pow2(FieldBits)

\* The number whose bits, lowest first, are bits lo .. lo + n - 1 of word w.
RECURSIVE BitsValue(_, _, _)
BitsValue(w, lo, n) ==
    IF n = 0 \/ \A b \in w : b < lo THEN 0
    ELSE (IF lo \in w THEN 1 ELSE 0) + 2 * BitsValue(w, lo + 1, n - 1)

\* The positions, from k on, of the bits of the number v.
RECURSIVE BitsOf(_, _)
BitsOf(v, k) ==
    IF v = 0 THEN {} ELSE (IF v % 2 = 1 THEN {k} ELSE {}) \cup BitsOf(v \div 2, k + 1)

\* The unsigned field of width bits at bit lo of word w; a value of FieldBits
\* bits or more reads as Huge, which is beyond every offset and every count here.
Field(w, lo, width) ==
    IF \E b \in w : b >= lo + FieldBits /\ b < lo + width THEN Huge
    ELSE BitsValue(w, lo, Min(width, FieldBits))

SetField(w, lo, width, v) ==
    {b \in w : b < lo \/ b >= lo + width} \cup {b \in BitsOf(v, lo) : b < lo + width}

\* Relationship is the DWORD at offset 0 and Size the DWORD at offset 4.
HeaderWord(rel, size) == SetField(SetField({}, 0, 32, rel), 32, 32, size)
\* GroupCount is the WORD at offset 30 (Processor, NumaNode) or 38 (Cache):
\* the last two bytes of the word before the first GROUP_AFFINITY.
CountWord(gc) == SetField({}, 48, 16, gc)
\* GROUP_AFFINITY: Mask, then the WORD Group and six reserved bytes.
AffinityWords(ga) == <<ga.Mask, SetField({}, 0, 16, ga.Group)>>
\* PROCESSOR_GROUP_INFO: the BYTEs MaximumProcessorCount and ActiveProcessorCount,
\* 38 reserved bytes, ActiveProcessorMask.
GroupInfoWords(gi) ==
    << SetField(SetField({}, 0, 8, gi.MaximumProcessorCount), 8, 8, gi.ActiveProcessorCount),
       {}, {}, {}, {}, gi.ActiveProcessorMask >>

RECURSIVE Flatten(_)
Flatten(ss) == IF ss = <<>> THEN <<>> ELSE Head(ss) \o Flatten(Tail(ss))

\* The bytes of one provider record: the header carries the record's Size field,
\* the payload is what is physically there.
Encode(r) ==
    IF r.Relationship \in ProcessorKinds \cup NumaKinds
    THEN << HeaderWord(r.Relationship, r.Size), {}, {}, CountWord(r.GroupCount) >>
            \o Flatten([i \in 1 .. Len(r.GroupMask) |-> AffinityWords(r.GroupMask[i])])
    ELSE IF r.Relationship = RelationCache
    THEN << HeaderWord(r.Relationship, r.Size), {}, {}, {}, CountWord(r.GroupCount) >>
            \o Flatten([i \in 1 .. Len(r.GroupMask) |-> AffinityWords(r.GroupMask[i])])
    ELSE IF r.Relationship = RelationGroup
    THEN << HeaderWord(r.Relationship, r.Size),
            SetField(SetField({}, 0, 16, r.MaximumGroupCount), 16, 16, r.ActiveGroupCount),
            {}, {} >>
            \o Flatten([i \in 1 .. Len(r.GroupInfo) |-> GroupInfoWords(r.GroupInfo[i])])
    ELSE << HeaderWord(r.Relationship, r.Size), {}, {} >>

EncodeAll(raw) == Flatten([i \in 1 .. Len(raw) |-> Encode(raw[i])])

\* A read or a write of word i; a word beyond the modelled memory reads as zero
\* and is not stored (the walk is then stopped as a wild access).
Rd(mem, i) == IF i < Len(mem) THEN mem[i + 1] ELSE {}
Wr(mem, i, w) == IF i < Len(mem) THEN [mem EXCEPT ![i + 1] = w] ELSE mem

\* memmove(write, read, size): n words, overlap allowed.
MoveWords(mem, write, read, n) ==
    [i \in 1 .. Len(mem) |->
        IF i - 1 >= write /\ i - 1 < write + n THEN Rd(mem, i - 1 - write + read) ELSE mem[i]]

\* if (field > cap) field = cap, on the field of width bits at bit lo of word w.
CapField(w, lo, width, cap) == IF Field(w, lo, width) > cap THEN SetField(w, lo, width, cap) ELSE w

\* lines 874-875, 884-885, 893-894: GroupCount, the last two bytes of word i.
CapGroupCount(mem, i) == Wr(mem, i, CapField(Rd(mem, i), 48, 16, 1))

\* lines 876-878, 886-888, 895-897: the test of the mask at word i and its rewrite;
\* top is one past the last word the case touched.
MaskTest(mem, i, words) ==
    IF MaskAnd(Rd(mem, i), kCpuMask) = {} THEN [keep |-> FALSE, mem |-> mem, top |-> i + 1]
    ELSE [keep |-> TRUE, mem |-> Wr(mem, i, MaskAnd(Rd(mem, i), kCpuMask)),
          words |-> words, top |-> i + 1]

\* lines 872-879, 884-889, 893-898: the mask is the first word of the group entry
\* at byte offset entry of the record at read, GroupCount is in the word before it.
MaskCase(mem, read, entry, dropZero) ==
    IF dropZero /\ Field(Rd(mem, read + entry \div WordBytes - 1), 48, 16) = 0
    THEN [keep |-> FALSE, mem |-> mem, top |-> read + entry \div WordBytes]
    ELSE MaskTest(CapGroupCount(mem, read + entry \div WordBytes - 1),
                  read + entry \div WordBytes,
                  (entry + SizeofGroupAffinity) \div WordBytes)

\* lines 903-906: MaximumGroupCount and ActiveGroupCount, the WORDs at offsets 8 and 10.
CapGroupCounts(mem, i) == Wr(mem, i, CapField(CapField(Rd(mem, i), 0, 16, 1), 16, 16, 1))
\* lines 907-910: ActiveProcessorCount and MaximumProcessorCount, the BYTEs at
\* offsets 1 and 0 of GroupInfo[0].
CapProcessorCounts(mem, i) ==
    Wr(mem, i, CapField(CapField(Rd(mem, i), 8, 8, kNumCpus), 0, 8, kNumCpus))
\* line 911.
ClampMask(mem, i) == Wr(mem, i, MaskAnd(Rd(mem, i), kCpuMask))

\* lines 901-914.
GroupCase(mem, read) ==
    IF Field(Rd(mem, read + 1), 16, 16) = 0
    THEN [keep |-> FALSE, mem |-> mem, top |-> read + 2]
    ELSE [keep |-> TRUE,
          mem |-> ClampMask(
                     CapProcessorCounts(CapGroupCounts(mem, read + 1),
                                        read + OffsetGroupInfo \div WordBytes),
                     read + (OffsetGroupInfo + SizeofGroupInfo) \div WordBytes - 1),
          words |-> (OffsetGroupInfo + SizeofGroupInfo) \div WordBytes,
          top |-> read + (OffsetGroupInfo + SizeofGroupInfo) \div WordBytes]

\* The switch of lines 866-920 on the bytes at read, rel being read->Relationship.
ReduceKind(mem, read, rel) ==
    IF rel \in ProcessorKinds THEN MaskCase(mem, read, OffsetProcessorGroupMask, TRUE)
    ELSE IF rel \in NumaKinds THEN MaskCase(mem, read, OffsetNumaGroupMask, FALSE)
    ELSE IF rel = RelationCache THEN MaskCase(mem, read, OffsetCacheGroupMask, FALSE)
    ELSE IF rel = RelationGroup THEN GroupCase(mem, read)
    ELSE [keep |-> FALSE, mem |-> mem, top |-> read + 1]

ReduceAt(mem, read) == ReduceKind(mem, read, Field(Rd(mem, read), 0, 32))

\* A walk that looks for the next record after the current one was rewritten.
NextOfRewritten(before, after, read) == read + Field(Rd(after, read), 32, 32) \div WordBytes

\* line 864: next is taken from read->Size on entry to the iteration.
NextOf(before, after, read) == read + Field(Rd(before, read), 32, 32) \div WordBytes

\* A move that leaves the Size field as it came.
StoreSizeKept(w, size) == w

\* line 927: write->Size = size.
StoreSize(w, size) == SetField(w, 32, 32, size)

\* lines 923-927 for the kept record v of the walk w: the move when the cursors
\* differ, then the store of the size.
Moved(w, v) == IF w.write # w.read THEN MoveWords(v.mem, w.write, w.read, v.words) ELSE v.mem
Placed(w, v, moved) == Wr(moved, w.write, StoreSize(Rd(moved, w.write), WordBytes * v.words))
PlaceTop(w, v) ==
    IF w.write # w.read THEN Max(v.top, Max(w.read, w.write) + v.words)
    ELSE Max(v.top, w.write + 1)

\* The end of an iteration whose switch gave v, mem being the buffer it leaves.
Advance(w, v, mem) ==
    [w EXCEPT !.mem = mem,
              !.read = NextOf(w.mem, mem, w.read),
              !.write = IF v.keep THEN @ + v.words ELSE @,
              !.top = Max(@, IF v.keep THEN PlaceTop(w, v) ELSE v.top),
              !.visited = Append(@, w.read),
              !.kept = IF v.keep THEN Append(@, w.write) ELSE @]

Iteration(w, v) == Advance(w, v, IF v.keep THEN Placed(w, v, Moved(w, v)) ELSE v.mem)

\* One iteration of the loop of lines 862-929.
WalkIter(w) == Iteration(w, ReduceAt(w.mem, w.read))

\* The walk on entry to the loop, lines 852-861: buf = write = read, end = read + length;
\* after holds what lies behind the scratch buffer.
StartWalk(bytes, after) ==
    [orig |-> bytes \o after, mem |-> bytes \o after, end |-> Len(bytes), read |-> 0,
     write |-> 0, top |-> 0, visited |-> <<>>, kept |-> <<>>, cached |-> <<>>]

\* The record a chain of cached bytes holds at word i.
DecodeAt(mem, i) ==
    LET rel == Field(Rd(mem, i), 0, 32)
        size == Field(Rd(mem, i), 32, 32)
        ga(k) == GA(Rd(mem, k), Field(Rd(mem, k + 1), 0, 16))
        gi(k) == GI(Field(Rd(mem, k), 0, 8), Field(Rd(mem, k), 8, 8), Rd(mem, k + 5))
    IN  IF rel \in ProcessorKinds \cup NumaKinds
        THEN [id |-> 0, Relationship |-> rel, Size |-> size,
              GroupCount |-> Field(Rd(mem, i + 3), 48, 16),
              GroupMask |-> [k \in 1 .. (size - OffsetProcessorGroupMask) \div SizeofGroupAffinity |->
                              ga(i + 4 + 2 * (k - 1))]]
        ELSE IF rel = RelationCache
        THEN [id |-> 0, Relationship |-> rel, Size |-> size,
              GroupCount |-> Field(Rd(mem, i + 4), 48, 16),
              GroupMask |-> [k \in 1 .. (size - OffsetCacheGroupMask) \div SizeofGroupAffinity |->
                              ga(i + 5 + 2 * (k - 1))]]
        ELSE IF rel = RelationGroup
        THEN [id |-> 0, Relationship |-> rel, Size |-> size,
              MaximumGroupCount |-> Field(Rd(mem, i + 1), 0, 16),
              ActiveGroupCount |-> Field(Rd(mem, i + 1), 16, 16),
              GroupInfo |-> [k \in 1 .. (size - OffsetGroupInfo) \div SizeofGroupInfo |->
                              gi(i + 4 + 6 * (k - 1))]]
        ELSE [id |-> 0, Relationship |-> rel, Size |-> size]

\* The offsets at which following Size from word i finds a record header before
\* word end; a Size of less than a word ends the chain.
RECURSIVE ChainOffsets(_, _, _)
ChainOffsets(mem, i, end) ==
    IF i >= end THEN <<>>
    ELSE IF Field(Rd(mem, i), 32, 32) < WordBytes THEN <<i>>
    ELSE <<i>> \o ChainOffsets(mem, i + Field(Rd(mem, i), 32, 32) \div WordBytes, end)

\* The records of the cached bytes, as a reader that follows Size finds them.
Decode(mem, end) ==
    LET offs == ChainOffsets(mem, 0, end)
    IN  [k \in 1 .. Len(offs) |-> DecodeAt(mem, offs[k])]

(* --------------------------- provider data ----------------------------- *)
MaskIn == {0, 1}
MaskOut == {24, 63}
MaskStraddle == {23, 24}
MaskAll == 0 .. 63

FixedMasks == {MaskIn, MaskOut, MaskStraddle, {}}
FixedKinds == {RelationProcessorCore, RelationCache}

\* The record the provider may put at position i of its answer (id is the position).
FixedRecAt(i) == {FixedRec(i, k, m) : k \in FixedKinds, m \in FixedMasks}

ExRecAt(i) ==
    { MaskRec(i, RelationProcessorCore, 0, <<GA(MaskIn, 0)>>),
      MaskRec(i, RelationProcessorCore, 1, <<GA(MaskStraddle, 0)>>),
      MaskRec(i, RelationProcessorCore, 1, <<GA(MaskOut, 0)>>),
      MaskRec(i, RelationProcessorCore, 2, <<GA(MaskStraddle, 0), GA(MaskIn, 1)>>),
      MaskRec(i, RelationProcessorPackage, 2, <<GA(MaskOut, 0), GA(MaskIn, 1)>>),
      MaskRec(i, RelationProcessorDie, 1, <<GA(MaskIn, 0)>>),
      MaskRec(i, RelationProcessorModule, 1, <<GA(MaskStraddle, 1)>>),
      MaskRec(i, RelationNumaNode, 0, <<GA(MaskStraddle, 0)>>),
      MaskRec(i, RelationNumaNode, 1, <<GA(MaskOut, 0)>>),
      MaskRec(i, RelationNumaNodeEx, 2, <<GA(MaskStraddle, 0), GA(MaskIn, 1)>>),
      MaskRec(i, RelationNumaNodeEx, 1, <<GA(MaskIn, 0)>>),
      MaskRec(i, RelationCache, 0, <<GA(MaskIn, 0)>>),
      MaskRec(i, RelationCache, 1, <<GA(MaskOut, 0)>>),
      MaskRec(i, RelationCache, 2, <<GA(MaskStraddle, 0), GA(MaskOut, 1)>>),
      GroupRec(i, 1, 0, <<GI(64, 64, MaskAll)>>),
      GroupRec(i, 1, 1, <<GI(64, 64, MaskAll)>>),
      GroupRec(i, 3, 3, <<GI(64, 64, MaskAll), GI(64, 64, MaskAll), GI(64, 32, MaskIn)>>),
      GroupRec(i, 0, 1, <<GI(8, 2, MaskIn)>>),
      GroupRec(i, 1, 1, <<GI(64, 2, MaskOut)>>),
      OtherRec(i, RelationUnknown, 24) }

\* Every answer of at most n records: position i holds one of At(i).
SeqsUpTo(At(_), n) ==
    UNION { { s \in [1 .. k -> UNION {At(i) : i \in 1 .. k}] : \A i \in 1 .. k : s[i] \in At(i) }
            : k \in 0 .. n }

FixedInputs == SeqsUpTo(FixedRecAt, MaxRecs + 1)
ExInputs == SeqsUpTo(ExRecAt, MaxRecs)

\* The byte size of the single-group layout of a kind, lines 878, 888, 897, 912.
LayoutSize(kind) ==
    IF kind = RelationGroup THEN OffsetGroupInfo + SizeofGroupInfo
    ELSE EntryOffset(kind) + SizeofGroupAffinity

\* Provider records for the byte-level walk, and the Size fields a provider may
\* put in their headers: the true size, 0, one word, two words too many, and the
\* single-group size.
WalkShapes(i) ==
    { MaskRec(i, RelationProcessorCore, 1, <<GA(MaskStraddle, 0)>>),
      MaskRec(i, RelationProcessorCore, 2, <<GA(MaskIn, 0), GA(MaskIn, 1)>>),
      MaskRec(i, RelationCache, 1, <<GA(MaskOut, 0)>>),
      GroupRec(i, 1, 1, <<GI(64, 64, MaskAll)>>),
      OtherRec(i, RelationUnknown, 24) }
DeclaredSizes(r) ==
    {r.Size, 0, WordBytes, r.Size + 2 * WordBytes}
       \cup (IF r.Relationship = RelationUnknown THEN {} ELSE {LayoutSize(r.Relationship)})
WalkRecAt(i) ==
    UNION { { [r EXCEPT !.Size = z] : z \in DeclaredSizes(r) } : r \in WalkShapes(i) }
WalkInputs == SeqsUpTo(WalkRecAt, MaxWalkRecs)

\* What lies behind the scratch buffer on the stack.
AfterBuffer == { [i \in 1 .. SlackWords |-> {}], [i \in 1 .. SlackWords |-> MaskAll] }

QueryRels == {RelationProcessorCore, RelationGroup}

DefaultFixed ==
    << FixedRec(1, RelationProcessorCore, MaskIn),
       FixedRec(2, RelationProcessorCore, MaskOut),
       FixedRec(3, RelationCache, MaskStraddle),
       FixedRec(4, RelationCache, MaskIn) >>

DefaultEx ==
    [ R \in QueryRels |->
        IF R = RelationProcessorCore
        THEN << MaskRec(1, RelationProcessorCore, 1, <<GA(MaskStraddle, 0)>>),
                MaskRec(2, RelationProcessorCore, 1, <<GA(MaskOut, 0)>>),
                MaskRec(3, RelationProcessorCore, 2, <<GA(MaskIn, 0), GA(MaskIn, 1)>>) >>
        ELSE << GroupRec(1, 3, 3, <<GI(64, 64, MaskAll), GI(64, 64, MaskAll), GI(64, 32, MaskIn)>>) >> ]

\* The caller's (Buffer, *ReturnedLength) pairs; a null ReturnedLength is hasLength = FALSE.
BufferSmall == 80
BufferLarge == 96
ArgChoices ==
    { [hasBuffer |-> TRUE, hasLength |-> FALSE, inLength |-> 0],
      [hasBuffer |-> FALSE, hasLength |-> TRUE, inLength |-> BufferLarge],
      [hasBuffer |-> TRUE, hasLength |-> TRUE, inLength |-> BufferSmall],
      [hasBuffer |-> TRUE, hasLength |-> TRUE, inLength |-> BufferLarge] }

(* ------------------------------- state --------------------------------- *)
VARIABLES
    installed,            \* static bool installed
    hooked,               \* the detours are attached: host calls reach the My* entry points
    detachPending,        \* DllMain(DLL_PROCESS_DETACH) has not been delivered yet
    CPUInfoLock,          \* 0 when free, else the thread that holds it
    CachedCPUInfo,        \* NULL or the heap block
    CachedCPUInfoCount,
    fixedMem,             \* contents of the block CachedCPUInfo points to
    CachedRelationship,
    CachedCPUInfoEx,      \* NULL or the heap block
    CachedCPUInfoExBytes,
    exMem,                \* contents of the block CachedCPUInfoEx points to
    pc,                   \* where each thread is
    frame,                \* each thread's arguments, locals and results
    prev,                 \* a sequential host's call before the one in frame, as it returned
    fixedResults,         \* (length, contents) of the successful, amply buffered fixed queries
    lastServed,           \* a sequential host's last extended query served from the cache
    transitions,          \* its served extended queries whose relationship differed from lastServed
    rawFixed,             \* what the provider answers to the fixed query
    rawEx,                \* what the provider answers to the extended query, per relationship
    threads,              \* the host threads
    budget,               \* entry-point calls the host may still make
    faults,               \* provider or allocation failures that may still happen
    called,               \* the static bool called of the two system-info hooks
    Orig,                 \* the InstallDetours run whose trampolines the Orig pointers hold, 0 for none
    attachPending,        \* DllMain(DLL_PROCESS_ATTACH) deliveries that may still come
    walk                  \* the scratch buffer and the cursors of CacheCPUInfoExLocked, by 8-byte words

cacheVars ==
    <<CachedCPUInfo, CachedCPUInfoCount, fixedMem, CachedRelationship, CachedCPUInfoEx,
      CachedCPUInfoExBytes, exMem>>
fixedVars == <<CachedCPUInfo, CachedCPUInfoCount, fixedMem>>
exVars == <<CachedRelationship, CachedCPUInfoEx, CachedCPUInfoExBytes, exMem>>
envVars == <<rawFixed, rawEx, threads>>
lifeVars == <<installed, hooked, detachPending>>
loadVars == <<called, Orig, attachPending, walk>>
vars ==
    <<installed, hooked, detachPending, CPUInfoLock, CachedCPUInfo, CachedCPUInfoCount, fixedMem,
      CachedRelationship, CachedCPUInfoEx, CachedCPUInfoExBytes, exMem, pc, frame, prev,
      fixedResults, lastServed, transitions, rawFixed, rawEx, threads, budget, faults,
      called, Orig, attachPending, walk>>
ghostVars == <<fixedResults, lastServed, transitions>>

Threads == 1 .. NumThreads
SystemInfoHooks == {"GetSystemInfo", "GetNativeSystemInfo"}

Untouched == [written |-> FALSE, data |-> <<>>]
NoMem == [init |-> FALSE, freed |-> FALSE, data |-> <<>>]

\* No scratch buffer: CacheCPUInfoExLocked is not running.
NoWalk ==
    [orig |-> <<>>, mem |-> <<>>, end |-> 0, read |-> 0, write |-> 0, top |-> 0,
     visited |-> <<>>, kept |-> <<>>, cached |-> <<>>]

\* A heap block after HeapFree.
FreedMem == [init |-> FALSE, freed |-> TRUE, data |-> <<>>]

\* No arguments, no provider call, no result yet.
Nothing == [none |-> TRUE]

IdleFrame ==
    [fn |-> "none", Relationship |-> RelationNone, hasBuffer |-> FALSE, hasLength |-> FALSE,
     inLength |-> 0, ReturnedLength |-> 0, Buffer |-> Untouched, buf |-> <<>>, length |-> 0,
     ret |-> "none", err |-> "none", provCalls |-> 0, rebuilt |-> FALSE,
     deactivated |-> FALSE, readFreed |-> FALSE, probe |-> Nothing, fill |-> "none",
     arg |-> Nothing, forwarded |-> Nothing, provRet |-> Nothing,
     result |-> Nothing]

\* What an uninitialised or freed heap block of n records may read as.
JunkRecs == {FixedRec(0, RelationProcessorCore, {}), FixedRec(0, RelationCache, MaskAll)}
UninitContents(n) == { [i \in 1 .. n |-> j] : j \in JunkRecs }

\* A lock that excludes nobody.
CanAcquireAlways(lock, t) == TRUE

\* AcquireSRWLockExclusive returns to thread t only when nobody holds the lock.
CanAcquire(lock, t) == lock = 0

InitCommon ==
    /\ installed = TRUE
    /\ hooked = TRUE
    /\ detachPending = TRUE
    /\ CPUInfoLock = 0
    /\ CachedCPUInfo = NULL
    /\ CachedCPUInfoCount = 0
    /\ fixedMem = NoMem
    /\ CachedRelationship = RelationNone
    /\ CachedCPUInfoEx = NULL
    /\ CachedCPUInfoExBytes = 0
    /\ exMem = <<>>
    /\ pc = [t \in Threads |-> "idle"]
    /\ frame = [t \in Threads |-> IdleFrame]
    /\ prev = IdleFrame
    /\ fixedResults = {}
    /\ lastServed = RelationNone
    /\ transitions = 0
    /\ called = [h \in SystemInfoHooks |-> FALSE]
    /\ Orig = 1
    /\ attachPending = 0
    /\ walk = NoWalk

\* Concurrent host threads.
Init ==
    /\ InitCommon
    /\ threads = Threads
    /\ budget = MaxCalls
    /\ faults = MaxFaults
    /\ rawFixed = DefaultFixed
    /\ rawEx = DefaultEx

\* One host thread making calls one after the other.
InitSeq ==
    /\ InitCommon
    /\ threads = {1}
    /\ budget = MaxSeqCalls
    /\ faults = MaxFaults
    /\ rawFixed = DefaultFixed
    /\ rawEx = DefaultEx

\* One host thread, any provider answer.
InitFilter ==
    /\ InitCommon
    /\ threads = {1}
    /\ budget = 1
    /\ faults = 0
    /\ \E f \in FixedInputs, e \in ExInputs :
          /\ f = <<>> \/ e = <<>>
          /\ rawFixed = f
          /\ rawEx = [R \in QueryRels |-> e]

\* One host thread, any provider bytes, for the walk taken word by word.
InitWalk ==
    /\ InitCommon
    /\ threads = {1}
    /\ budget = 1
    /\ faults = 0
    /\ rawFixed = <<>>
    /\ \E e \in WalkInputs :
          rawEx = [R \in QueryRels |-> IF R = RelationProcessorCore THEN e ELSE <<>>]

(* ------------------------------ returning ------------------------------ *)
\* The extended query of frame f was answered from the cache (success or
\* insufficient buffer).
Served(f) ==
    /\ f.fn = "Ex" /\ f.hasLength
    /\ f.ret = "TRUE" \/ f.err = "ERROR_INSUFFICIENT_BUFFER"

\* The history kept of the calls that returned: fixedResults takes the successful
\* fixed queries whose buffer could hold the whole filtered topology.
Record(f) ==
    /\ fixedResults' =
          IF /\ f.fn = "Fixed" /\ f.hasLength /\ f.ret = "TRUE" /\ ~f.deactivated
             /\ f.inLength >= Len(FilterFixed(rawFixed)) * SizeofInfo
          THEN fixedResults \cup {[ReturnedLength |-> f.ReturnedLength, Buffer |-> f.Buffer]}
          ELSE fixedResults
    /\ lastServed' =
          IF Served(f) /\ Cardinality(threads) = 1 THEN f.Relationship ELSE lastServed
    /\ transitions' =
          IF Served(f) /\ lastServed # RelationNone /\ lastServed # f.Relationship
          THEN transitions + 1 ELSE transitions

\* Thread t returns from its entry point with frame f.
Return(t, f) ==
    LET g == [f EXCEPT !.deactivated = ~hooked, !.buf = <<>>, !.length = 0]
    IN  /\ pc' = [pc EXCEPT ![t] = "idle"]
        /\ frame' = [frame EXCEPT ![t] = g]
        /\ prev' = prev
        /\ Record(g)

\* Thread t takes an access violation: it never returns.
Crash(t, f) ==
    /\ pc' = [pc EXCEPT ![t] = "crashed"]
    /\ frame' = [frame EXCEPT ![t] = [f EXCEPT !.deactivated = ~hooked]]
    /\ UNCHANGED <<prev, ghostVars>>

Goto(t, label, f) ==
    /\ pc' = [pc EXCEPT ![t] = label]
    /\ frame' = [frame EXCEPT ![t] = f]
    /\ UNCHANGED <<prev, ghostVars>>

\* Thread t enters an entry point with the fresh frame f.  "The call before" is
\* remembered when the host has one thread, where it is well defined.
Enter(t, label, f) ==
    /\ pc' = [pc EXCEPT ![t] = label]
    /\ prev' = IF threads = {t} THEN frame[t] ELSE prev
    /\ frame' = [frame EXCEPT ![t] = f]
    /\ UNCHANGED ghostVars

\* Thread t runs a hook that has no step another thread can see, and returns
\* with frame f.
Complete(t, f) ==
    /\ pc' = pc
    /\ prev' = IF threads = {t} THEN frame[t] ELSE prev
    /\ frame' = [frame EXCEPT ![t] = [f EXCEPT !.deactivated = ~hooked]]
    /\ UNCHANGED ghostVars

(* ----------------------- the host calls an entry point ----------------- *)
\* The interception layer routes a host call of GetLogicalProcessorInformation.
CallFixed(t) ==
    /\ t \in threads /\ pc[t] = "idle" /\ hooked /\ budget > 0
    /\ \E a \in ArgChoices :
          Enter(t, "F_check",
               [IdleFrame EXCEPT !.fn = "Fixed", !.hasBuffer = a.hasBuffer,
                                 !.hasLength = a.hasLength, !.inLength = a.inLength,
                                 !.ReturnedLength = a.inLength, !.ret = "pending"])
    /\ budget' = budget - 1
    /\ UNCHANGED <<lifeVars, CPUInfoLock, cacheVars, envVars, loadVars, faults>>

\* The interception layer routes a host call of GetLogicalProcessorInformationEx;
\* lines 990-994 send a call with a null ReturnedLength to the provider.
CallEx(t) ==
    /\ t \in threads /\ pc[t] = "idle" /\ hooked /\ budget > 0
    /\ \E a \in ArgChoices, R \in QueryRels :
          Enter(t, IF a.hasLength THEN "X_lock" ELSE "X_pass",
               [IdleFrame EXCEPT !.fn = "Ex", !.Relationship = R, !.hasBuffer = a.hasBuffer,
                                 !.hasLength = a.hasLength, !.inLength = a.inLength,
                                 !.ReturnedLength = a.inLength, !.ret = "pending"])
    /\ budget' = budget - 1
    /\ UNCHANGED <<lifeVars, CPUInfoLock, cacheVars, envVars, loadVars, faults>>

\* DllMain(DLL_PROCESS_ATTACH), lines 1557-1568, calls InstallDetours, lines
\* 1411-1485.  Without Kernel32 the run ends at line 1425; otherwise every Orig
\* pointer is assigned from GetProcAddress (1446) and attached (1448), the
\* transaction commits (1482) and installed is set (1484).  No line tests
\* installed.
DllMainAttach(t) ==
    /\ t \in threads /\ pc[t] = "idle" /\ attachPending > 0
    /\ attachPending' = attachPending - 1
    /\ detachPending' = TRUE
    /\ \/ /\ faults > 0
          /\ faults' = faults - 1
          /\ Complete(t, [IdleFrame EXCEPT !.fn = "Install", !.ret = "void", !.err = "Kernel32"])
          /\ UNCHANGED <<installed, hooked, Orig>>
       \/ /\ Orig' = MaxAttach - attachPending + 1
          /\ hooked' = TRUE
          /\ installed' = TRUE
          /\ faults' = faults
          /\ Complete(t, [IdleFrame EXCEPT !.fn = "Install", !.ret = "void"])
    /\ UNCHANGED <<CPUInfoLock, cacheVars, envVars, called, walk, budget>>

\* DllMain(DLL_PROCESS_DETACH) calls RestoreDetours on the detaching thread; the
\* loader delivers nothing after it.
DllMainDetach(t) ==
    /\ t \in threads /\ pc[t] = "idle" /\ detachPending
    /\ detachPending' = FALSE
    /\ attachPending' = 0
    /\ Enter(t, "R_entry", [IdleFrame EXCEPT !.fn = "Restore", !.ret = "pending"])
    /\ UNCHANGED <<installed, hooked, CPUInfoLock, cacheVars, envVars, called, Orig, walk, budget,
                   faults>>

(* ------------------------- the provider's answers ---------------------- *)
\* What the provider may answer to the size-discovery call (a null buffer): its
\* return value and the GetLastError that follows.
ProbeExpected == [ret |-> FALSE, gle |-> "ERROR_INSUFFICIENT_BUFFER"]
SizeProbes ==
    { ProbeExpected,
      [ret |-> TRUE, gle |-> "none"],
      [ret |-> FALSE, gle |-> "ERROR_ACCESS_DENIED"] }

\* A test that lets a size-discovery call that succeeded go on to the fill call.
ProbeRejectedOnErrorOnly(p) == ~p.ret /\ p.gle # "ERROR_INSUFFICIENT_BUFFER"

\* The tests of lines 779 and 849.
ProbeRejected(p) == p.ret \/ p.gle # "ERROR_INSUFFICIENT_BUFFER"

\* A build that asks the provider once more before it gives up.
UpstreamFailedAfterRetry(f, p, fill, calls) ==
    [f EXCEPT !.rebuilt = TRUE, !.probe = p, !.fill = fill, !.ret = "FALSE",
              !.err = "upstream", !.provCalls = @ + calls + 1]

\* lines 781-783, 788-790 and 957; 850, 854 and 1001-1002: the build stops after
\* calls provider calls and the query returns FALSE.
UpstreamFailed(f, p, fill, calls) ==
    [f EXCEPT !.rebuilt = TRUE, !.probe = p, !.fill = fill, !.ret = "FALSE",
              !.err = "upstream", !.provCalls = @ + calls]

(* ------------------- MyGetLogicalProcessorInformation ------------------ *)
\* lines 959-965: where the query goes once line 956 lets it pass.
AfterEnsure(f) == IF f.hasLength THEN "F_cmp" ELSE "F_pass"

\* line 956: the unlocked test of CachedCPUInfo; when it is null, CacheCPUInfo
\* lines 779-813: the size-discovery call must fail with ERROR_INSUFFICIENT_BUFFER
\* and the fill call must succeed, else the build fails; then the filter runs over
\* the scratch array.  No lock is held.
Fixed_Check(t) ==
    /\ pc[t] = "F_check"
    /\ IF CachedCPUInfo # NULL
       THEN /\ Goto(t, AfterEnsure(frame[t]), frame[t])
            /\ faults' = faults
       ELSE \E p \in SizeProbes :
               /\ p = ProbeExpected \/ faults > 0
               /\ IF ProbeRejected(p)
                  THEN /\ Return(t, UpstreamFailed(frame[t], p, "none", 1))
                       /\ faults' = faults - 1
                  ELSE \/ /\ Goto(t, "CF_alloc",
                                  [frame[t] EXCEPT !.rebuilt = TRUE, !.probe = p,
                                                   !.fill = "TRUE",
                                                   !.length = Len(rawFixed) * SizeofInfo,
                                                   !.buf = FilterFixed(rawFixed),
                                                   !.provCalls = @ + 2])
                          /\ faults' = IF p = ProbeExpected THEN faults ELSE faults - 1
                       \/ /\ p = ProbeExpected /\ faults > 0
                          /\ faults' = faults - 1
                          /\ Return(t, UpstreamFailed(frame[t], p, "FALSE", 2))
    /\ UNCHANGED <<lifeVars, CPUInfoLock, cacheVars, envVars, loadVars, budget>>

\* CacheCPUInfo lines 815-824 (and 830-831 when the cache is already there): the
\* lock, the locked re-check and HeapAlloc.  The pointer is published here, before
\* the count and the contents.
CacheCPUInfo_Alloc(t) ==
    /\ pc[t] = "CF_alloc"
    /\ CanAcquire(CPUInfoLock, t)
    /\ IF CachedCPUInfo # NULL
       THEN /\ Goto(t, AfterEnsure(frame[t]), frame[t])
            /\ UNCHANGED <<CPUInfoLock, fixedVars, faults>>
       ELSE \/ /\ CachedCPUInfo' = 1
               /\ fixedMem' = NoMem
               /\ CPUInfoLock' = t
               /\ Goto(t, "CF_count", frame[t])
               /\ UNCHANGED <<CachedCPUInfoCount, faults>>
            \/ /\ faults > 0
               /\ faults' = faults - 1
               /\ Return(t, [frame[t] EXCEPT !.ret = "FALSE", !.err = "alloc"])
               /\ UNCHANGED <<CPUInfoLock, fixedVars>>
    /\ UNCHANGED <<lifeVars, exVars, envVars, loadVars, budget>>

\* CacheCPUInfo line 826.
CacheCPUInfo_Count(t) ==
    /\ pc[t] = "CF_count"
    /\ CachedCPUInfoCount' = Len(frame[t].buf)
    /\ Goto(t, "CF_copy", frame[t])
    /\ UNCHANGED <<lifeVars, CPUInfoLock, CachedCPUInfo, fixedMem, exVars, envVars, loadVars, budget, faults>>

\* CacheCPUInfo lines 827-831: the memcpy into the block, then the release.
CacheCPUInfo_Copy(t) ==
    /\ pc[t] = "CF_copy"
    /\ fixedMem' = [init |-> TRUE, freed |-> FALSE,
                    data |-> SubSeq(frame[t].buf, 1, CachedCPUInfoCount)]
    /\ CPUInfoLock' = 0
    /\ Goto(t, AfterEnsure(frame[t]), frame[t])
    /\ UNCHANGED <<lifeVars, CachedCPUInfo, CachedCPUInfoCount, exVars, envVars, loadVars, budget, faults>>

\* A pass-through that drops the caller's buffer.
ForwardWithoutBuffer(f, args, r) ==
    [f EXCEPT !.forwarded = [args EXCEPT !.hasBuffer = FALSE], !.provRet = [retval |-> r],
              !.ret = r, !.err = "provider", !.provCalls = @ + 1]

\* lines 962 and 993: the provider is called with args and its result r is returned.
Forward(f, args, r) ==
    [f EXCEPT !.forwarded = args, !.provRet = [retval |-> r],
              !.ret = r, !.err = "provider", !.provCalls = @ + 1]

\* lines 959-963: a null ReturnedLength is handed to the provider, with a null
\* Buffer.
Fixed_Pass(t) ==
    /\ pc[t] = "F_pass"
    /\ \E r \in {"TRUE", "FALSE"} :
          Return(t, Forward(frame[t], [hasBuffer |-> FALSE, hasLength |-> FALSE], r))
    /\ UNCHANGED <<lifeVars, CPUInfoLock, cacheVars, envVars, loadVars, budget, faults>>

\* A test that also turns away a buffer of exactly the needed size.
TooSmallOrEqual(hasBuffer, len, need) == ~hasBuffer \/ len <= need

\* The tests of lines 965 and 1006: the caller's buffer cannot take need bytes.
TooSmall(hasBuffer, len, need) == ~hasBuffer \/ len < need

\* A reply that fails without reporting the required size.
ShortReplyKeepsLength(f, need) ==
    [f EXCEPT !.ret = "FALSE", !.err = "ERROR_INSUFFICIENT_BUFFER"]

\* lines 967-969 and 1008-1011: the required size is reported, nothing is copied.
ShortReply(f, need) ==
    [f EXCEPT !.ReturnedLength = need, !.ret = "FALSE", !.err = "ERROR_INSUFFICIENT_BUFFER"]

\* line 965: the comparison reads CachedCPUInfoCount.
Fixed_Cmp(t) ==
    /\ pc[t] = "F_cmp"
    /\ Goto(t, IF TooSmall(frame[t].hasBuffer, frame[t].ReturnedLength,
                           CachedCPUInfoCount * SizeofInfo)
               THEN "F_short" ELSE "F_len", frame[t])
    /\ UNCHANGED <<lifeVars, CPUInfoLock, cacheVars, envVars, loadVars, budget, faults>>

\* lines 967-969.
Fixed_Short(t) ==
    /\ pc[t] = "F_short"
    /\ Return(t, ShortReply(frame[t], CachedCPUInfoCount * SizeofInfo))
    /\ UNCHANGED <<lifeVars, CPUInfoLock, cacheVars, envVars, loadVars, budget, faults>>

\* line 972: CachedCPUInfoCount is read again.
Fixed_Len(t) ==
    /\ pc[t] = "F_len"
    /\ Goto(t, "F_copy", [frame[t] EXCEPT !.ReturnedLength = CachedCPUInfoCount * SizeofInfo])
    /\ UNCHANGED <<lifeVars, CPUInfoLock, cacheVars, envVars, loadVars, budget, faults>>

\* The copy out of a block that is not written yet or was freed: it reads as
\* anything.
JunkCopy(t, n, wasFreed) ==
    \E g \in UninitContents(n) :
       Return(t, [frame[t] EXCEPT !.Buffer = [written |-> TRUE, data |-> g],
                                  !.readFreed = wasFreed, !.ret = "TRUE"])

\* lines 973-974: memcpy of *ReturnedLength bytes from the block CachedCPUInfo
\* points to.  A block that is not written yet, or was freed, reads as anything.
\* Once RestoreDetours has reset the pointer, the copy either loads the null
\* pointer (an access violation for a non-zero length) or still uses the pointer
\* loaded at line 956, which is the freed block.
Fixed_Copy(t) ==
    /\ pc[t] = "F_copy"
    /\ LET n == frame[t].ReturnedLength \div SizeofInfo
       IN  IF n = 0
           THEN Return(t, [frame[t] EXCEPT !.ret = "TRUE"])
           ELSE IF CachedCPUInfo # NULL /\ fixedMem.init
           THEN Return(t, [frame[t] EXCEPT
                             !.Buffer = [written |-> TRUE, data |-> SubSeq(fixedMem.data, 1, n)],
                             !.ret = "TRUE"])
           ELSE IF CachedCPUInfo # NULL
           THEN JunkCopy(t, n, fixedMem.freed)
           ELSE \/ Crash(t, [frame[t] EXCEPT !.ret = "crash", !.err = "access violation"])
                \/ JunkCopy(t, n, TRUE)
    /\ UNCHANGED <<lifeVars, CPUInfoLock, cacheVars, envVars, loadVars, budget, faults>>

(* ------------------ MyGetLogicalProcessorInformationEx ----------------- *)
\* lines 990-994: a null ReturnedLength is handed to the provider, no lock taken.
Ex_Pass(t) ==
    /\ pc[t] = "X_pass"
    /\ \E r \in {"TRUE", "FALSE"} :
          Return(t, Forward(frame[t],
                            [Relationship |-> frame[t].Relationship,
                             hasBuffer |-> frame[t].hasBuffer, hasLength |-> FALSE], r))
    /\ UNCHANGED <<lifeVars, CPUInfoLock, cacheVars, envVars, loadVars, budget, faults>>

\* A test that forgets the tag.
NeedsRebuildIgnoringTag(tag, ptr, R) == ptr = NULL

\* A test that never trusts the cache.
NeedsRebuildAlways(tag, ptr, R) == TRUE

\* The test of line 997.
NeedsRebuild(tag, ptr, R) == tag # R \/ ptr = NULL

\* The scratch buffer after CacheCPUInfoExLocked lines 849-929: the two provider
\* calls and the filter.
Rebuilding(f) ==
    [f EXCEPT !.rebuilt = TRUE, !.probe = ProbeExpected, !.fill = "TRUE",
              !.length = SumSize(rawEx[f.Relationship]),
              !.buf = FilterEx(rawEx[f.Relationship]),
              !.provCalls = @ + 2]

\* lines 996-997, and on a stale cache CacheCPUInfoExLocked lines 841-929: the old
\* block is freed and the tag reset, then the provider is asked twice and the
\* answer filtered; on a provider failure lines 1001-1002 release and fail.
Ex_Lock(t) ==
    /\ pc[t] = "X_lock"
    /\ CanAcquire(CPUInfoLock, t)
    /\ IF NeedsRebuild(CachedRelationship, CachedCPUInfoEx, frame[t].Relationship)
       THEN /\ IF CachedCPUInfoEx # NULL
               THEN /\ CachedRelationship' = RelationNone
                    /\ CachedCPUInfoEx' = NULL
                    /\ CachedCPUInfoExBytes' = 0
                    /\ exMem' = <<>>
               ELSE UNCHANGED exVars
            /\ \E p \in SizeProbes :
                  /\ p = ProbeExpected \/ faults > 0
                  /\ IF ProbeRejected(p)
                     THEN /\ Return(t, UpstreamFailed(frame[t], p, "none", 1))
                          /\ CPUInfoLock' = 0
                          /\ faults' = faults - 1
                     ELSE \/ /\ Goto(t, "X_store", [Rebuilding(frame[t]) EXCEPT !.probe = p])
                             /\ CPUInfoLock' = t
                             /\ faults' = IF p = ProbeExpected THEN faults ELSE faults - 1
                          \/ /\ p = ProbeExpected /\ faults > 0
                             /\ faults' = faults - 1
                             /\ CPUInfoLock' = 0
                             /\ Return(t, UpstreamFailed(frame[t], p, "FALSE", 2))
       ELSE /\ Goto(t, "X_reply", frame[t])
            /\ CPUInfoLock' = t
            /\ UNCHANGED <<exVars, faults>>
    /\ UNCHANGED <<lifeVars, fixedVars, envVars, loadVars, budget>>

\* A store that tags the cache before it knows the allocation worked.
TagSetBeforeAlloc(tag, R) == R

\* lines 933-939: the tag is assigned after the allocation test, so a failed
\* allocation leaves the tag it found.
TagAfterFailedAlloc(tag, R) == tag

\* CacheCPUInfoExLocked lines 931-943; on an allocation failure lines 1001-1002
\* release and fail.
CacheCPUInfoExLocked_Store(t) ==
    /\ pc[t] = "X_store"
    /\ \/ /\ CachedCPUInfoExBytes' = SumSize(frame[t].buf)
          /\ CachedCPUInfoEx' = 1
          /\ exMem' = frame[t].buf
          /\ CachedRelationship' = frame[t].Relationship
          /\ Goto(t, "X_reply", frame[t])
          /\ UNCHANGED <<CPUInfoLock, faults>>
       \/ /\ faults > 0
          /\ faults' = faults - 1
          /\ CachedCPUInfoExBytes' = 0
          /\ CPUInfoLock' = 0
          /\ CachedRelationship' =
                TagAfterFailedAlloc(CachedRelationship, frame[t].Relationship)
          /\ Return(t, [frame[t] EXCEPT !.ret = "FALSE", !.err = "alloc"])
          /\ UNCHANGED <<CachedCPUInfoEx, exMem>>
    /\ UNCHANGED <<lifeVars, fixedVars, envVars, loadVars, budget>>

\* lines 1006-1016: the size test, the copy to the caller and the release.
Ex_Reply(t) ==
    /\ pc[t] = "X_reply"
    /\ IF TooSmall(frame[t].hasBuffer, frame[t].ReturnedLength, CachedCPUInfoExBytes)
       THEN Return(t, ShortReply(frame[t], CachedCPUInfoExBytes))
       ELSE Return(t, [frame[t] EXCEPT
                         !.Buffer = [written |-> CachedCPUInfoExBytes > 0, data |-> exMem],
                         !.ReturnedLength = CachedCPUInfoExBytes,
                         !.ret = "TRUE"])
    /\ CPUInfoLock' = 0
    /\ UNCHANGED <<lifeVars, cacheVars, envVars, loadVars, budget, faults>>

(* ------------- CacheCPUInfoExLocked, the walk word by word -------------- *)
\* lines 996-997 and CacheCPUInfoExLocked lines 841-861: as Ex_Lock, with the
\* provider's bytes in the scratch buffer and the cursors at its start.
Ex_LockBytes(t) ==
    /\ pc[t] = "X_lock"
    /\ CanAcquire(CPUInfoLock, t)
    /\ IF NeedsRebuild(CachedRelationship, CachedCPUInfoEx, frame[t].Relationship)
       THEN /\ IF CachedCPUInfoEx # NULL
               THEN /\ CachedRelationship' = RelationNone
                    /\ CachedCPUInfoEx' = NULL
                    /\ CachedCPUInfoExBytes' = 0
                    /\ exMem' = <<>>
               ELSE UNCHANGED exVars
            /\ \E p \in SizeProbes :
                  /\ p = ProbeExpected \/ faults > 0
                  /\ IF ProbeRejected(p)
                     THEN /\ Return(t, UpstreamFailed(frame[t], p, "none", 1))
                          /\ CPUInfoLock' = 0
                          /\ faults' = faults - 1
                          /\ walk' = walk
                     ELSE \/ /\ \E after \in AfterBuffer :
                                   walk' = StartWalk(EncodeAll(rawEx[frame[t].Relationship]), after)
                             /\ Goto(t, "X_walk",
                                     [frame[t] EXCEPT
                                        !.rebuilt = TRUE, !.probe = p, !.fill = "TRUE",
                                        !.length = WordBytes * Len(EncodeAll(rawEx[frame[t].Relationship])),
                                        !.provCalls = @ + 2])
                             /\ CPUInfoLock' = t
                             /\ faults' = IF p = ProbeExpected THEN faults ELSE faults - 1
                          \/ /\ p = ProbeExpected /\ faults > 0
                             /\ faults' = faults - 1
                             /\ CPUInfoLock' = 0
                             /\ walk' = walk
                             /\ Return(t, UpstreamFailed(frame[t], p, "FALSE", 2))
       ELSE /\ Goto(t, "X_reply", frame[t])
            /\ CPUInfoLock' = t
            /\ UNCHANGED <<exVars, faults, walk>>
    /\ UNCHANGED <<lifeVars, fixedVars, envVars, called, Orig, attachPending, budget>>

\* One iteration of the loop of lines 862-929.  An iteration that changes neither
\* the buffer nor a cursor repeats for ever; an access beyond the stack that is
\* modelled ends the thread.
CacheCPUInfoExLocked_Iterate(t) ==
    /\ pc[t] = "X_walk"
    /\ walk.read < walk.end
    /\ walk' = WalkIter(walk)
    /\ <<walk'.mem, walk'.read, walk'.write>> # <<walk.mem, walk.read, walk.write>>
    /\ IF walk'.top > Len(walk'.mem) THEN Crash(t, frame[t]) ELSE Goto(t, "X_walk", frame[t])
    /\ UNCHANGED <<lifeVars, CPUInfoLock, cacheVars, envVars, called, Orig, attachPending,
                   budget, faults>>

\* CacheCPUInfoExLocked lines 931-943 after the loop: the size is the distance the
\* write cursor went, and that many bytes of the scratch buffer are copied.
CacheCPUInfoExLocked_StoreBytes(t) ==
    /\ pc[t] = "X_walk"
    /\ walk.read >= walk.end
    /\ \/ /\ CachedCPUInfoExBytes' = WordBytes * walk.write
          /\ CachedCPUInfoEx' = 1
          /\ exMem' = Decode(walk.mem, walk.write)
          /\ CachedRelationship' = frame[t].Relationship
          /\ walk' = [walk EXCEPT !.cached = SubSeq(walk.mem, 1, walk.write),
                                  !.top = Max(@, walk.write)]
          /\ Goto(t, "X_reply", frame[t])
          /\ UNCHANGED <<CPUInfoLock, faults>>
       \/ /\ faults > 0
          /\ faults' = faults - 1
          /\ CachedCPUInfoExBytes' = 0
          /\ CPUInfoLock' = 0
          /\ CachedRelationship' =
                TagAfterFailedAlloc(CachedRelationship, frame[t].Relationship)
          /\ Return(t, [frame[t] EXCEPT !.ret = "FALSE", !.err = "alloc"])
          /\ UNCHANGED <<CachedCPUInfoEx, exMem, walk>>
    /\ UNCHANGED <<lifeVars, fixedVars, envVars, called, Orig, attachPending, budget>>

(* ---------------------------- RestoreDetours --------------------------- *)
\* lines 1489-1530: nothing to do when not installed; else the hooks are detached,
\* which takes the trampolines out of the Orig pointers.
RestoreDetours_Entry(t) ==
    /\ pc[t] = "R_entry"
    /\ IF ~installed
       THEN Return(t, [frame[t] EXCEPT !.ret = "TRUE"]) /\ hooked' = hooked /\ Orig' = Orig
       ELSE Goto(t, "R_clean", frame[t]) /\ hooked' = FALSE /\ Orig' = 0
    /\ UNCHANGED <<installed, detachPending, CPUInfoLock, cacheVars, envVars, called,
                   attachPending, walk, budget, faults>>

\* lines 1533-1536: the lock is taken and, when there is a fixed cache, its block
\* is freed; the pointer still holds its address.
RestoreDetours_Clean(t) ==
    /\ pc[t] = "R_clean"
    /\ CanAcquire(CPUInfoLock, t)
    /\ CPUInfoLock' = t
    /\ fixedMem' = IF CachedCPUInfo # NULL THEN FreedMem ELSE fixedMem
    /\ Goto(t, "R_reset", frame[t])
    /\ UNCHANGED <<lifeVars, CachedCPUInfo, CachedCPUInfoCount, exVars, envVars, loadVars,
                   budget, faults>>

\* A clean-up that frees nothing.
AfterFreeKept(ptr, present, empty) == present

\* if (ptr) { HeapFree(ptr); reset }, lines 1534-1539 and 1540-1546: the variables
\* of a cache after it, present being their values before.
AfterFree(ptr, present, empty) == IF ptr # NULL THEN empty ELSE present

\* lines 1537-1549: the fixed cache is reset, the extended cache freed and reset,
\* the lock released.
RestoreDetours_Reset(t) ==
    /\ pc[t] = "R_reset"
    /\ LET fixed == AfterFree(CachedCPUInfo, fixedVars, <<NULL, 0, NoMem>>)
           ex == AfterFree(CachedCPUInfoEx, exVars, <<RelationNone, NULL, 0, <<>>>>)
       IN  /\ CachedCPUInfo' = fixed[1]
           /\ CachedCPUInfoCount' = fixed[2]
           /\ fixedMem' = fixed[3]
           /\ CachedRelationship' = ex[1]
           /\ CachedCPUInfoEx' = ex[2]
           /\ CachedCPUInfoExBytes' = ex[3]
           /\ exMem' = ex[4]
    /\ installed' = FALSE
    /\ CPUInfoLock' = 0
    /\ Return(t, [frame[t] EXCEPT !.ret = "TRUE"])
    /\ UNCHANGED <<hooked, detachPending, envVars, loadVars, budget, faults>>

(* ---------------------------- affinity hooks --------------------------- *)
\* What the host and the provider may hand to the affinity hooks.
ClampMasks == {MaskIn, MaskOut, MaskStraddle, MaskAll, {}}
IdealInputs == {0, kNumCpus - 1, kNumCpus, kNumCpus + 1, MAXIMUM_PROCESSORS - 1,
                MAXIMUM_PROCESSORS, MAXIMUM_PROCESSORS + 1, DwordMinusOne}
IdealPrevious == {0, kNumCpus - 1, kNumCpus, 2 * kNumCpus - 1, MAXIMUM_PROCESSORS - 1,
                  DwordMinusOne}

\* A host thread may call a hook that is still attached.
MayCall(t) == t \in threads /\ pc[t] = "idle" /\ hooked /\ budget > 0

\* A clamp that does not look at the provider's verdict.
AffinityQueryResultAlwaysClamped(retval, hasP, hasS, P, S) ==
    [retval |-> retval,
     process |-> IF ~hasP THEN Nothing ELSE [mask |-> MaskAnd(P, kCpuMask)],
     system |-> IF ~hasS THEN Nothing ELSE [mask |-> MaskAnd(S, kCpuMask)]]

\* lines 539-551: the masks the caller's two pointers show after the call; an
\* absent pointer shows nothing, a failed call leaves what the provider left.
AffinityQueryResult(retval, hasP, hasS, P, S) ==
    [retval |-> retval,
     process |-> IF ~hasP THEN Nothing
                 ELSE [mask |-> IF retval THEN MaskAnd(P, kCpuMask) ELSE P],
     system |-> IF ~hasS THEN Nothing
                ELSE [mask |-> IF retval THEN MaskAnd(S, kCpuMask) ELSE S]]

\* MyGetProcessAffinityMask, lines 527-552.
CallGetProcessAffinityMask(t) ==
    /\ MayCall(t)
    /\ \E hasP, hasS, retval \in BOOLEAN, P, S \in {MaskOut, MaskStraddle, MaskAll} :
          Complete(t, [IdleFrame EXCEPT
                         !.fn = "GetProcessAffinityMask",
                         !.arg = [hasP |-> hasP, hasS |-> hasS],
                         !.forwarded = [hasP |-> hasP, hasS |-> hasS],
                         !.provRet = [retval |-> retval, process |-> P, system |-> S],
                         !.provCalls = 1,
                         !.result = AffinityQueryResult(retval, hasP, hasS, P, S),
                         !.ret = IF retval THEN "TRUE" ELSE "FALSE"])
    /\ budget' = budget - 1
    /\ UNCHANGED <<lifeVars, CPUInfoLock, cacheVars, envVars, loadVars, faults>>

\* The requested mask passed on as it came.
ForwardedMaskRaw(R) == R

\* lines 557, 572: myAffinityMask = requested & kCpuMask.
ForwardedMask(R) == MaskAnd(R, kCpuMask)

\* MySetProcessAffinityMask, lines 554-567.
CallSetProcessAffinityMask(t) ==
    /\ MayCall(t)
    /\ \E R \in ClampMasks, retval \in BOOLEAN :
          Complete(t, [IdleFrame EXCEPT
                         !.fn = "SetProcessAffinityMask",
                         !.arg = [mask |-> R],
                         !.forwarded = [mask |-> ForwardedMask(R)],
                         !.provRet = [retval |-> retval],
                         !.provCalls = 1,
                         !.result = [retval |-> retval],
                         !.ret = IF retval THEN "TRUE" ELSE "FALSE"])
    /\ budget' = budget - 1
    /\ UNCHANGED <<lifeVars, CPUInfoLock, cacheVars, envVars, loadVars, faults>>

\* The provider's previous mask handed back as it came.
PreviousMaskRaw(retval) == retval

\* line 582: retval &= kCpuMask.
PreviousMask(retval) == MaskAnd(retval, kCpuMask)

\* MySetThreadAffinityMask, lines 569-585; the provider returns the previous mask,
\* 0 (the empty mask) when it fails.
CallSetThreadAffinityMask(t) ==
    /\ MayCall(t)
    /\ \E R \in ClampMasks, retval \in ClampMasks :
          Complete(t, [IdleFrame EXCEPT
                         !.fn = "SetThreadAffinityMask",
                         !.arg = [mask |-> R],
                         !.forwarded = [mask |-> ForwardedMask(R)],
                         !.provRet = [mask |-> retval],
                         !.provCalls = 1,
                         !.result = [mask |-> PreviousMask(retval)],
                         !.ret = IF PreviousMask(retval) # {} THEN "TRUE" ELSE "FALSE"])
    /\ budget' = budget - 1
    /\ UNCHANGED <<lifeVars, CPUInfoLock, cacheVars, envVars, loadVars, faults>>

\* A range test that forgets MAXIMUM_PROCESSORS.
IdealOutOfRangeNoSentinel(dwIdealProcessor) == DwordGe(dwIdealProcessor, kNumCpus)

\* line 619: the index is neither inside the virtual set nor MAXIMUM_PROCESSORS.
IdealOutOfRange(dwIdealProcessor) ==
    DwordGe(dwIdealProcessor, kNumCpus) /\ dwIdealProcessor # MAXIMUM_PROCESSORS

\* A reduction that also reduces the provider's failure value.
IdealReturnAlwaysReduced(retval) == DwordMod(retval, kNumCpus)

\* lines 629-632: the provider's failure value passes, any other value is reduced.
IdealReturn(retval) == IF retval = DwordMinusOne THEN retval ELSE DwordMod(retval, kNumCpus)

\* MySetThreadIdealProcessor, lines 615-633.
CallSetThreadIdealProcessor(t) ==
    /\ MayCall(t)
    /\ \E i \in IdealInputs :
          IF IdealOutOfRange(i)
          THEN Complete(t, [IdleFrame EXCEPT
                              !.fn = "SetThreadIdealProcessor",
                              !.arg = [index |-> i],
                              !.result = [value |-> DwordMinusOne],
                              !.ret = "FALSE"])
          ELSE \E retval \in IdealPrevious :
                  Complete(t, [IdleFrame EXCEPT
                                 !.fn = "SetThreadIdealProcessor",
                                 !.arg = [index |-> i],
                                 !.forwarded = [index |-> i],
                                 !.provRet = [value |-> retval],
                                 !.provCalls = 1,
                                 !.result = [value |-> IdealReturn(retval)],
                                 !.ret = IF retval = DwordMinusOne THEN "FALSE" ELSE "TRUE"])
    /\ budget' = budget - 1
    /\ UNCHANGED <<lifeVars, CPUInfoLock, cacheVars, envVars, loadVars, faults>>

(* --------------------------- system-info hooks ------------------------- *)
\* What the provider may write into the caller's SYSTEM_INFO.
SystemInfos ==
    { [dwNumberOfProcessors |-> n, dwActiveProcessorMask |-> m, dwPageSize |-> 4096] :
         n \in {1, kNumCpus - 1, kNumCpus, kNumCpus + 1, MAXIMUM_PROCESSORS},
         m \in {MaskIn, MaskAll} }

\* A hook that clamps on its first call only.
SystemInfoResultOnce(info, wasCalled) ==
    IF wasCalled THEN info
    ELSE [info EXCEPT !.dwNumberOfProcessors = IF @ < kNumCpus THEN @ ELSE kNumCpus]

\* lines 505-511 and 518-524: the structure the caller holds after the call; the
\* static called only decides whether the first call is logged.
SystemInfoResult(info, wasCalled) ==
    [info EXCEPT !.dwNumberOfProcessors = IF @ < kNumCpus THEN @ ELSE kNumCpus]

ReportSystemInfo(t, hook) ==
    /\ MayCall(t)
    /\ \E info \in SystemInfos :
          Complete(t, [IdleFrame EXCEPT
                         !.fn = hook,
                         !.arg = [wasCalled |-> called[hook]],
                         !.provRet = info,
                         !.provCalls = 1,
                         !.result = SystemInfoResult(info, called[hook]),
                         !.ret = "void"])
    /\ called' = [called EXCEPT ![hook] = TRUE]
    /\ budget' = budget - 1
    /\ UNCHANGED <<lifeVars, CPUInfoLock, cacheVars, envVars, Orig, attachPending, walk, faults>>

\* MyGetSystemInfo, lines 501-512.
CallGetSystemInfo(t) == ReportSystemInfo(t, "GetSystemInfo")

\* MyGetNativeSystemInfo, lines 514-525.
CallGetNativeSystemInfo(t) == ReportSystemInfo(t, "GetNativeSystemInfo")

(* ------------------------------ the system ----------------------------- *)
Next ==
    \E t \in Threads :
        \/ CallFixed(t)
        \/ CallEx(t)
        \/ DllMainDetach(t)
        \/ Fixed_Check(t)
        \/ CacheCPUInfo_Alloc(t)
        \/ CacheCPUInfo_Count(t)
        \/ CacheCPUInfo_Copy(t)
        \/ Fixed_Pass(t)
        \/ Fixed_Cmp(t)
        \/ Fixed_Short(t)
        \/ Fixed_Len(t)
        \/ Fixed_Copy(t)
        \/ Ex_Pass(t)
        \/ Ex_Lock(t)
        \/ CacheCPUInfoExLocked_Store(t)
        \/ Ex_Reply(t)
        \/ RestoreDetours_Entry(t)
        \/ RestoreDetours_Clean(t)
        \/ RestoreDetours_Reset(t)

Spec == Init /\ [][Next]_vars
SpecSeq == InitSeq /\ [][Next]_vars

\* The steps a thread takes inside an entry point.  The scheduler lets every
\* thread run, and the lock is handed to a waiting thread once it is free.
Progress(t) ==
    \/ Fixed_Check(t) \/ CacheCPUInfo_Alloc(t) \/ CacheCPUInfo_Count(t) \/ CacheCPUInfo_Copy(t)
    \/ Fixed_Pass(t) \/ Fixed_Cmp(t) \/ Fixed_Short(t) \/ Fixed_Len(t) \/ Fixed_Copy(t)
    \/ Ex_Pass(t) \/ Ex_Lock(t) \/ CacheCPUInfoExLocked_Store(t) \/ Ex_Reply(t)
    \/ RestoreDetours_Entry(t) \/ RestoreDetours_Clean(t) \/ RestoreDetours_Reset(t)

SpecFair == Init /\ [][Next]_vars /\ \A t \in Threads : SF_vars(Progress(t))
SpecFilter == InitFilter /\ [][Next]_vars

\* The extended query with the rebuild's walk taken word by word.
NextWalk ==
    \E t \in Threads :
        \/ CallEx(t)
        \/ Ex_Pass(t)
        \/ Ex_LockBytes(t)
        \/ CacheCPUInfoExLocked_Iterate(t)
        \/ CacheCPUInfoExLocked_StoreBytes(t)
        \/ Ex_Reply(t)

SpecWalk == InitWalk /\ [][NextWalk]_vars

\* The module from before DllMain(DLL_PROCESS_ATTACH): no hook is attached, nothing
\* is captured; one host thread.
InitLife ==
    /\ installed = FALSE
    /\ hooked = FALSE
    /\ detachPending = FALSE
    /\ CPUInfoLock = 0
    /\ CachedCPUInfo = NULL
    /\ CachedCPUInfoCount = 0
    /\ fixedMem = NoMem
    /\ CachedRelationship = RelationNone
    /\ CachedCPUInfoEx = NULL
    /\ CachedCPUInfoExBytes = 0
    /\ exMem = <<>>
    /\ pc = [t \in Threads |-> "idle"]
    /\ frame = [t \in Threads |-> IdleFrame]
    /\ prev = IdleFrame
    /\ fixedResults = {}
    /\ lastServed = RelationNone
    /\ transitions = 0
    /\ called = [h \in SystemInfoHooks |-> FALSE]
    /\ Orig = 0
    /\ attachPending = MaxAttach
    /\ walk = NoWalk
    /\ threads = {1}
    /\ budget = MaxLifeCalls
    /\ faults = MaxFaults
    /\ rawFixed = DefaultFixed
    /\ rawEx = DefaultEx

NextLife ==
    \/ Next
    \/ \E t \in Threads : DllMainAttach(t)

SpecLife == InitLife /\ [][NextLife]_vars

\* The affinity hooks keep no state of their own: one host thread calling them.
InitClamp ==
    /\ InitCommon
    /\ threads = {1}
    /\ budget = MaxClampCalls
    /\ faults = 0
    /\ rawFixed = DefaultFixed
    /\ rawEx = DefaultEx

NextClamp ==
    \E t \in Threads :
        \/ CallGetProcessAffinityMask(t)
        \/ CallSetProcessAffinityMask(t)
        \/ CallSetThreadAffinityMask(t)
        \/ CallSetThreadIdealProcessor(t)
        \/ CallGetSystemInfo(t)
        \/ CallGetNativeSystemInfo(t)

SpecClamp == InitClamp /\ [][NextClamp]_vars

(* ------------------------------- claims -------------------------------- *)
Done(t) == pc[t] = "idle" /\ frame[t].ret \in {"TRUE", "FALSE"}
IsQuery(h) == h.fn \in {"Fixed", "Ex"} /\ h.hasLength
Succeeded(h) == IsQuery(h) /\ h.ret = "TRUE"
Insufficient(h) == IsQuery(h) /\ h.ret = "FALSE" /\ h.err = "ERROR_INSUFFICIENT_BUFFER"
BuildFailed(h) == h.err \in {"upstream", "alloc"}
FixedBytes(data) == Len(data) * SizeofInfo

\* C1: under any interleaving of extended queries, a thread that is about to copy
\* for relationship R holds the lock and the cache is present, tagged R and holds
\* the bytes built for R; every extended query that returned success for R
\* received the bytes built for R.
C1_CopyUnderMatchingTag ==
    \A t \in Threads :
       /\ pc[t] = "X_reply" =>
             /\ CPUInfoLock = t
             /\ CachedCPUInfoEx # NULL
             /\ CachedRelationship = frame[t].Relationship
             /\ exMem = FilterEx(rawEx[frame[t].Relationship])
       /\ Done(t) /\ frame[t].fn = "Ex" /\ Succeeded(frame[t]) =>
             frame[t].Buffer.data = FilterEx(rawEx[frame[t].Relationship])

\* C1 witness: one thread is about to copy for its relationship while another
\* thread, asking for a different relationship, waits for the lock.
C1_Witness ==
    \E t, u \in Threads :
        /\ pc[t] = "X_reply" /\ frame[t].hasBuffer
        /\ frame[t].ReturnedLength >= CachedCPUInfoExBytes
        /\ pc[u] = "X_lock"
        /\ frame[u].Relationship # frame[t].Relationship

\* C2: a fixed query that found the cache present on its unlocked fast path,
\* during the activation, reports the length of the finished filtered result and,
\* on success, copies exactly its bytes.
C2_FastPathSeesBuiltCache ==
    \A t \in Threads :
        LET h == frame[t] IN
        Done(t) /\ h.fn = "Fixed" /\ h.hasLength /\ ~h.rebuilt /\ ~h.deactivated =>
           /\ h.ReturnedLength = FixedBytes(FilterFixed(rawFixed))
           /\ h.ret = "TRUE" => h.Buffer.data = FilterFixed(rawFixed)

\* C3: an extended query that is served right after a served query for another
\* relationship rebuilds the cache with two provider calls, and every successful
\* extended query returns the filtered data of the relationship it asked for.
C3_RebuildOnEachTransition ==
    \A t \in Threads :
       Done(t) /\ Served(frame[t]) =>
          /\ frame[t].ret = "TRUE" =>
                frame[t].Buffer.data = FilterEx(rawEx[frame[t].Relationship])
          /\ Served(prev) /\ prev.Relationship # frame[t].Relationship =>
                frame[t].rebuilt /\ frame[t].provCalls = 2

\* C3 witness: successful extended queries for A, then B, then A again, each
\* transition served by a rebuild.
C3_Witness ==
    \E t \in Threads :
        /\ Done(t) /\ transitions >= 2
        /\ Succeeded(frame[t]) /\ frame[t].Relationship = RelationProcessorCore
        /\ frame[t].provCalls = 2
        /\ Succeeded(prev) /\ prev.Relationship = RelationGroup
        /\ prev.provCalls = 2

\* C4: any two successful fixed queries of one activation made with sufficient
\* buffers, from the same or from different threads, return the same length and
\* the same contents.
C4_FixedIdempotent == Cardinality(fixedResults) <= 1

\* C5: a query with a length and no buffer, whose build did not fail, fails with
\* the insufficient-buffer signal and reports S; the query that immediately follows
\* it (same entry point, same relationship) with a buffer of at least S bytes
\* succeeds, copies exactly S bytes and reports S.
C5_TwoPhaseRoundTrip ==
    \A t \in Threads :
       Done(t) =>
          LET a == prev
              b == frame[t]
          IN  /\ IsQuery(b) /\ ~b.hasBuffer /\ ~BuildFailed(b) => Insufficient(b)
              /\ /\ Insufficient(a) /\ ~a.hasBuffer
                 /\ IsQuery(b) /\ b.fn = a.fn /\ b.Relationship = a.Relationship
                 /\ b.hasBuffer /\ b.inLength >= a.ReturnedLength
                 => /\ b.ret = "TRUE"
                    /\ b.ReturnedLength = a.ReturnedLength
                    /\ IF b.fn = "Fixed"
                       THEN FixedBytes(b.Buffer.data) = a.ReturnedLength
                       ELSE SumSize(b.Buffer.data) = a.ReturnedLength

\* C5 witness: a size query followed by a query whose buffer is exactly S bytes,
\* S > 0, that succeeded.
C5_Witness ==
    \E t \in Threads :
        /\ Done(t)
        /\ Insufficient(prev) /\ ~prev.hasBuffer /\ prev.ReturnedLength > 0
        /\ frame[t].fn = prev.fn /\ frame[t].Relationship = prev.Relationship
        /\ frame[t].hasBuffer /\ frame[t].inLength = prev.ReturnedLength
        /\ frame[t].ret = "TRUE"

\* The byte size the cache of thread t's entry point holds.
CachedBytes(t) ==
    IF frame[t].fn = "Fixed" THEN CachedCPUInfoCount * SizeofInfo ELSE CachedCPUInfoExBytes

C6_Step(t) ==
    /\ pc[t] = "F_cmp"
         /\ (~frame[t].hasBuffer \/ frame[t].ReturnedLength < CachedBytes(t))
         /\ pc'[t] # "F_cmp"
       => pc'[t] = "F_short" /\ frame'[t] = frame[t] /\ UNCHANGED cacheVars
    /\ \/ pc[t] = "F_short" /\ pc'[t] # "F_short"
       \/ /\ pc[t] = "X_reply" /\ pc'[t] # "X_reply"
          /\ (~frame[t].hasBuffer \/ frame[t].ReturnedLength < CachedBytes(t))
       => /\ pc'[t] = "idle"
          /\ frame'[t].ret = "FALSE"
          /\ frame'[t].err = "ERROR_INSUFFICIENT_BUFFER"
          /\ frame'[t].ReturnedLength = CachedBytes(t)
          /\ frame'[t].Buffer = Untouched
          /\ UNCHANGED cacheVars
          /\ CPUInfoLock' # t

\* C6: when a query with a length finds its buffer absent or shorter than the
\* cached byte size, it reports the cached size, fails with the insufficient-buffer
\* signal, writes nothing to the caller's buffer, leaves the caches as they are and
\* does not hold the lock when it returns.
C6_InsufficientBuffer == [][\A t \in Threads : C6_Step(t)]_vars

\* C6 witness: an extended query with too short a buffer has returned the
\* insufficient-buffer signal with the size of a non-empty cache.
C6_Witness ==
    \E t \in Threads :
        /\ Done(t) /\ frame[t].fn = "Ex" /\ Insufficient(frame[t]) /\ frame[t].hasBuffer
        /\ frame[t].inLength < frame[t].ReturnedLength
        /\ frame[t].Buffer = Untouched
        /\ CachedCPUInfoEx # NULL /\ CachedCPUInfoExBytes = frame[t].ReturnedLength

(* ----------------------- claims about the filters ---------------------- *)
\* The j-th smallest element of a set of positions.
Nth(S, j) == CHOOSE i \in S : Cardinality({k \in S : k < i}) = j - 1
LowBits(m) == {b \in m : b < kNumCpus}

FixedReady == CachedCPUInfo # NULL /\ fixedMem.init
ExReady == CachedCPUInfoEx # NULL
ExRaw == rawEx[CachedRelationship]

\* C7: the fixed cache is the stable filter of the provider's array: a record is
\* kept iff its mask meets the virtual set, a kept record's mask is the
\* intersection and nothing else of it changes, the order is kept; so every cached
\* mask is a non-empty subset of the virtual mask.
C7_FixedStableFilter ==
    FixedReady =>
       LET K == {i \in 1 .. Len(rawFixed) : LowBits(rawFixed[i].ProcessorMask) # {}}
           out == fixedMem.data
       IN  /\ Len(out) = Cardinality(K)
           /\ CachedCPUInfoCount = Cardinality(K)
           /\ \A j \in 1 .. Len(out) :
                 /\ out[j] = [rawFixed[Nth(K, j)] EXCEPT !.ProcessorMask = LowBits(@)]
                 /\ out[j].ProcessorMask # {}
                 /\ out[j].ProcessorMask \subseteq 0 .. (kNumCpus - 1)

\* C7 witness: the cache was built from an array in which a dropped record comes
\* before a kept record whose mask reaches outside the virtual set.
C7_Witness ==
    /\ FixedReady
    /\ \E i, j \in 1 .. Len(rawFixed) :
          /\ i < j
          /\ rawFixed[i].ProcessorMask # {} /\ LowBits(rawFixed[i].ProcessorMask) = {}
          /\ LowBits(rawFixed[j].ProcessorMask) # {}
          /\ LowBits(rawFixed[j].ProcessorMask) # rawFixed[j].ProcessorMask

\* The drop conditions of the relationship table.
ExDropped(r) ==
    IF r.Relationship \in ProcessorKinds
    THEN r.GroupCount = 0 \/ LowBits(r.GroupMask[1].Mask) = {}
    ELSE IF r.Relationship \in NumaKinds \/ r.Relationship = RelationCache
    THEN LowBits(r.GroupMask[1].Mask) = {}
    ELSE IF r.Relationship = RelationGroup
    THEN r.ActiveGroupCount = 0
    ELSE TRUE

ExKept == {i \in 1 .. Len(ExRaw) : ~ExDropped(ExRaw[i])}

\* C8: the extended cache holds exactly the provider records the relationship
\* table keeps, in their original order, and its byte size is the sum of the sizes
\* of the kept records only.
C8_ExDropsPerTable ==
    ExReady =>
       /\ Len(exMem) = Cardinality(ExKept)
       /\ \A j \in 1 .. Len(exMem) :
             /\ exMem[j].id = ExRaw[Nth(ExKept, j)].id
             /\ exMem[j].Relationship = ExRaw[Nth(ExKept, j)].Relationship
       /\ CachedCPUInfoExBytes = SumSize(exMem)

\* C8 witness: the cache was rebuilt from an answer with a dropped processor record
\* that has no group, followed by a kept record.
C8_Witness ==
    /\ ExReady
    /\ \E i, j \in 1 .. Len(ExRaw) :
          /\ i < j
          /\ ExRaw[i].Relationship \in ProcessorKinds /\ ExRaw[i].GroupCount = 0
          /\ j \in ExKept

\* The mask a cached record is left with.
RemainingMask(r) ==
    IF r.Relationship = RelationGroup THEN r.GroupInfo[1].ActiveProcessorMask
    ELSE r.GroupMask[1].Mask

\* C9: every record of a Ready extended cache, Group records included, is left
\* with a mask that is a non-empty subset of the virtual mask.
C9_ExMaskNonEmptySubset ==
    ExReady =>
       \A j \in 1 .. Len(exMem) :
          /\ RemainingMask(exMem[j]) # {}
          /\ RemainingMask(exMem[j]) \subseteq 0 .. (kNumCpus - 1)

\* The byte size of the single-group layout of a kind.
SingleGroupSize(kind) ==
    IF kind = RelationGroup THEN 80 ELSE IF kind = RelationCache THEN 56 ELSE 48

CountField(r) == IF r.Relationship = RelationGroup THEN r.ActiveGroupCount ELSE r.GroupCount
Entries(r) == IF r.Relationship = RelationGroup THEN r.GroupInfo ELSE r.GroupMask

\* C10, counts read strictly: every record of a Ready extended cache has group count 1,
\* whatever the provider reported, and the size of the single-group layout.
C10_ExCountIsOne ==
    ExReady =>
       \A j \in 1 .. Len(exMem) :
          /\ CountField(exMem[j]) = 1
          /\ Len(Entries(exMem[j])) = 1
          /\ exMem[j].Size = SingleGroupSize(exMem[j].Relationship)

\* C10, counts as the filter leaves them: every record of a Ready extended cache carries one group entry and
\* the size of the single-group layout; its group count is 1 for Core, Die, Module
\* and Package records and for the active count of Group records, and the
\* provider's count capped at 1 (so 0 stays 0) for NumaNode, NumaNodeEx and Cache
\* records and for the maximum count of Group records.
C10_ExCountCapped ==
    ExReady =>
       \A j \in 1 .. Len(exMem) :
          LET r == exMem[j]
              o == ExRaw[Nth(ExKept, j)]
          IN  /\ Len(Entries(r)) = 1
              /\ r.Size = SingleGroupSize(r.Relationship)
              /\ IF r.Relationship \in ProcessorKinds THEN r.GroupCount = 1
                 ELSE IF r.Relationship = RelationGroup
                 THEN r.ActiveGroupCount = 1 /\ r.MaximumGroupCount = Min(o.MaximumGroupCount, 1)
                 ELSE r.GroupCount = Min(o.GroupCount, 1)

\* C10 witness: the cache holds a NumaNode record the provider reported with
\* count 0 and a record the provider reported with two groups.
C10_Witness ==
    /\ ExReady
    /\ \E i, j \in ExKept :
          /\ ExRaw[i].Relationship \in NumaKinds /\ ExRaw[i].GroupCount = 0
          /\ ExRaw[j].Relationship # RelationGroup /\ ExRaw[j].GroupCount = 2
          /\ ExRaw[j].Size > SingleGroupSize(ExRaw[j].Relationship)

(* -------------------- claims about the extended cache ------------------- *)
\* C11: every provider Group record with an active-group count of at least 1 is
\* in the cache with active-group count 1, maximum-group count at most 1, the first
\* group's active and maximum processor counts at min(original, virtual count),
\* its active-processor mask intersected with the virtual mask, one group entry
\* and the single-group size.
C11_GroupClamped ==
    ExReady =>
       /\ \A i \in 1 .. Len(ExRaw) :
             ExRaw[i].Relationship = RelationGroup /\ ExRaw[i].ActiveGroupCount >= 1 =>
                \E j \in 1 .. Len(exMem) : exMem[j].id = ExRaw[i].id
       /\ \A j \in 1 .. Len(exMem) :
             exMem[j].Relationship = RelationGroup =>
                LET r == exMem[j]
                    o == ExRaw[Nth(ExKept, j)]
                IN  /\ r.ActiveGroupCount = 1
                    /\ r.MaximumGroupCount <= 1
                    /\ Len(r.GroupInfo) = 1
                    /\ r.GroupInfo[1].ActiveProcessorCount =
                          Min(o.GroupInfo[1].ActiveProcessorCount, kNumCpus)
                    /\ r.GroupInfo[1].MaximumProcessorCount =
                          Min(o.GroupInfo[1].MaximumProcessorCount, kNumCpus)
                    /\ r.GroupInfo[1].ActiveProcessorMask =
                          LowBits(o.GroupInfo[1].ActiveProcessorMask)
                    /\ r.Size = SingleGroupSize(RelationGroup)

\* C11 witness: the cache holds a Group record the provider reported with three
\* active groups of 64 processors, and one whose counts were below the virtual count.
C11_Witness ==
    /\ ExReady
    /\ \E i, j \in ExKept :
          /\ ExRaw[i].Relationship = RelationGroup /\ ExRaw[i].ActiveGroupCount = 3
          /\ ExRaw[i].GroupInfo[1].ActiveProcessorCount > kNumCpus
          /\ ExRaw[i].Size > SingleGroupSize(RelationGroup)
          /\ ExRaw[j].Relationship = RelationGroup
          /\ ExRaw[j].GroupInfo[1].ActiveProcessorCount < kNumCpus

\* C12: an extended query for R whose rebuild failed (provider or allocation)
\* leaves the cache not tagged R, and the query for R that follows it asks the
\* provider again.
C12_FailedRebuildNotTagged ==
    \A t \in Threads :
       Done(t) /\ frame[t].fn = "Ex" =>
          /\ BuildFailed(frame[t]) => CachedRelationship # frame[t].Relationship
          /\ /\ prev.fn = "Ex" /\ BuildFailed(prev)
             /\ frame[t].hasLength /\ frame[t].Relationship = prev.Relationship
             => frame[t].rebuilt /\ frame[t].provCalls >= 1

\* C12 witness: a rebuild for R failed and the next query for R rebuilt the cache
\* with two provider calls and succeeded.
C12_Witness ==
    \E t \in Threads :
        /\ Done(t) /\ prev.fn = "Ex" /\ BuildFailed(prev)
        /\ Succeeded(frame[t]) /\ frame[t].fn = "Ex"
        /\ frame[t].Relationship = prev.Relationship
        /\ frame[t].rebuilt /\ frame[t].provCalls = 2
        /\ CachedRelationship = frame[t].Relationship

\* C13: a call that failed because cache memory could not be allocated leaves
\* the cache as it was before the call: the fixed cache still absent with count 0,
\* and an extended cache that had just served relationship A still present, tagged
\* A, with A's bytes and size.
C13_AllocFailureKeepsCache ==
    \A t \in Threads :
       Done(t) /\ frame[t].err = "alloc" =>
          /\ frame[t].fn = "Fixed" => CachedCPUInfo = NULL /\ CachedCPUInfoCount = 0
          /\ frame[t].fn = "Ex" /\ Served(prev) =>
                /\ CachedCPUInfoEx # NULL
                /\ CachedRelationship = prev.Relationship
                /\ exMem = FilterEx(rawEx[prev.Relationship])
                /\ CachedCPUInfoExBytes = SumSize(exMem)

\* C14: a fixed query with a null length is handed to the provider with null
\* arguments and returns the provider's result, whatever the state of the cache,
\* without building the fixed cache or asking the provider anything else.
C14_FixedNullLengthForwards ==
    \A t \in Threads :
       Done(t) /\ frame[t].fn = "Fixed" /\ ~frame[t].hasLength =>
          /\ frame[t].forwarded = [hasBuffer |-> FALSE, hasLength |-> FALSE]
          /\ frame[t].ret = frame[t].provRet.retval
          /\ frame[t].provCalls = 1
          /\ ~frame[t].rebuilt

C15_Step(t) ==
    /\ frame[t].fn = "Ex" /\ ~frame[t].hasLength => CPUInfoLock # t
    /\ pc[t] = "idle" /\ pc'[t] = "X_pass" => UNCHANGED <<cacheVars, CPUInfoLock>>
    /\ pc[t] = "X_pass" /\ pc'[t] # "X_pass" =>
          /\ pc'[t] = "idle"
          /\ frame'[t].forwarded =
                [Relationship |-> frame[t].Relationship, hasBuffer |-> frame[t].hasBuffer,
                 hasLength |-> FALSE]
          /\ frame'[t].provCalls = 1
          /\ frame'[t].ret = frame'[t].provRet.retval
          /\ frame'[t].Buffer = Untouched
          /\ UNCHANGED <<cacheVars, CPUInfoLock>>

\* C15: an extended query with a null length hands its three arguments to the
\* provider as they are, in one call, and returns the provider's result; the
\* thread never holds the lock during the call and the call leaves both caches and
\* the lock as they are.
C15_ExNullLengthPassthrough == [][\A t \in Threads : C15_Step(t)]_vars

\* C15 witness: an extended query with a buffer and a null length has returned
\* while another thread held the lock over a cache it had rebuilt.
C15_Witness ==
    \E t, u \in Threads :
        /\ Done(t) /\ frame[t].fn = "Ex" /\ ~frame[t].hasLength /\ frame[t].hasBuffer
        /\ frame[t].provCalls = 1
        /\ pc[u] = "X_reply" /\ CPUInfoLock = u /\ CachedCPUInfoEx # NULL

(* ------------------------ claims about the clamps ---------------------- *)
Called(t, fn) == pc[t] = "idle" /\ frame[t].fn = fn
IndexInVirtualSet(i) == i >= 0 /\ i < kNumCpus

\* C16: an ideal-processor index that is neither below the virtual count nor the
\* no-preference value is refused with the failure value and no provider call;
\* every other index reaches the provider unchanged, in one call.
C16_IdealRejectsOutOfRange ==
    \A t \in Threads :
       Called(t, "SetThreadIdealProcessor") =>
          LET f == frame[t]
              i == f.arg.index
          IN  IF IndexInVirtualSet(i) \/ i = MAXIMUM_PROCESSORS
              THEN f.forwarded = [index |-> i] /\ f.provCalls = 1
              ELSE /\ f.forwarded = Nothing /\ f.provCalls = 0
                   /\ f.result.value = DwordMinusOne /\ f.ret = "FALSE"

\* C16 witness: index kNumCpus was refused right after the no-preference value
\* was forwarded.
C16_Witness ==
    \E t \in Threads :
        /\ Called(t, "SetThreadIdealProcessor") /\ frame[t].arg.index = kNumCpus
        /\ frame[t].provCalls = 0
        /\ prev.fn = "SetThreadIdealProcessor" /\ prev.arg.index = MAXIMUM_PROCESSORS
        /\ prev.provCalls = 1

\* C17: when the provider is called and succeeds with previous value v the caller
\* gets v mod the virtual count, a value below the count; when the provider fails
\* the caller gets the failure value itself.
C17_IdealPreviousReduced ==
    \A t \in Threads :
       Called(t, "SetThreadIdealProcessor") /\ frame[t].provCalls = 1 =>
          LET v == frame[t].provRet.value
              r == frame[t].result.value
          IN  IF v = DwordMinusOne
              THEN r = DwordMinusOne
              ELSE r = v % kNumCpus /\ IndexInVirtualSet(r)

\* C17 witness: the provider answered with a previous value above the virtual
\* count, and before that it failed.
C17_Witness ==
    \E t \in Threads :
        /\ Called(t, "SetThreadIdealProcessor") /\ frame[t].provCalls = 1
        /\ frame[t].provRet.value = 2 * kNumCpus - 1
        /\ frame[t].result.value = kNumCpus - 1
        /\ prev.fn = "SetThreadIdealProcessor" /\ prev.provCalls = 1
        /\ prev.provRet.value = DwordMinusOne

\* C18: a thread-affinity request R reaches the provider as R & mask in one call,
\* and the previous mask handed back is the provider's value & mask, a subset of
\* the virtual mask.
C18_ThreadAffinityClamped ==
    \A t \in Threads :
       Called(t, "SetThreadAffinityMask") =>
          /\ frame[t].forwarded = [mask |-> LowBits(frame[t].arg.mask)]
          /\ frame[t].provCalls = 1
          /\ frame[t].result.mask = LowBits(frame[t].provRet.mask)
          /\ frame[t].result.mask \subseteq 0 .. (kNumCpus - 1)

\* C18 witness: a request that straddles the virtual mask, answered with a
\* previous mask of all 64 processors.
C18_Witness ==
    \E t \in Threads :
        /\ Called(t, "SetThreadAffinityMask")
        /\ frame[t].arg.mask = MaskStraddle /\ frame[t].forwarded.mask = {kNumCpus - 1}
        /\ frame[t].provRet.mask = MaskAll

\* C19: a process-affinity request R reaches the provider as R & mask and the
\* provider's verdict, success or failure, is returned as it is.
C19_ProcessAffinityClamped ==
    \A t \in Threads :
       Called(t, "SetProcessAffinityMask") =>
          /\ frame[t].forwarded = [mask |-> LowBits(frame[t].arg.mask)]
          /\ frame[t].provCalls = 1
          /\ frame[t].result = frame[t].provRet

\* C19 witness: a request with bits outside the virtual mask that the provider
\* refused, after one it accepted.
C19_Witness ==
    \E t \in Threads :
        /\ Called(t, "SetProcessAffinityMask")
        /\ frame[t].arg.mask = MaskAll /\ ~frame[t].result.retval
        /\ prev.fn = "SetProcessAffinityMask" /\ prev.arg.mask = MaskStraddle
        /\ prev.result.retval

\* C20: the affinity query returns the provider's verdict; on success each mask
\* the caller asked for is the provider's mask & the virtual mask, on failure it
\* is what the provider left.
C20_AffinityQueryClamped ==
    \A t \in Threads :
       Called(t, "GetProcessAffinityMask") =>
          LET f == frame[t]
              ok == f.provRet.retval
          IN  /\ f.result.retval = ok
              /\ f.provCalls = 1
              /\ f.arg.hasP =>
                    f.result.process.mask =
                       IF ok THEN LowBits(f.provRet.process) ELSE f.provRet.process
              /\ f.arg.hasS =>
                    f.result.system.mask =
                       IF ok THEN LowBits(f.provRet.system) ELSE f.provRet.system

\* C20 witness: the provider failed leaving masks with bits outside the virtual
\* mask, after a success with (M, M) for M of all 64 processors.
C20_Witness ==
    \E t \in Threads :
        /\ Called(t, "GetProcessAffinityMask") /\ ~frame[t].provRet.retval
        /\ frame[t].arg.hasP /\ frame[t].arg.hasS
        /\ frame[t].provRet.process = MaskStraddle
        /\ prev.fn = "GetProcessAffinityMask" /\ prev.provRet.retval
        /\ prev.arg.hasP /\ prev.arg.hasS
        /\ prev.provRet.process = MaskAll /\ prev.provRet.system = MaskAll
        /\ prev.result.process.mask = kCpuMask /\ prev.result.system.mask = kCpuMask

(* --------------------- claims about the system-info hooks -------------- *)
\* C21: each system-info hook reports min(provider's processor count, virtual
\* count) and every other field as the provider wrote it, on its first call as on
\* any later one, whichever hook was called before.
C21_SystemInfoClamped ==
    \A t \in Threads :
       \A hook \in SystemInfoHooks :
          Called(t, hook) =>
             LET f == frame[t]
             IN  /\ f.provCalls = 1
                 /\ f.result.dwNumberOfProcessors = Min(f.provRet.dwNumberOfProcessors, kNumCpus)
                 /\ f.result.dwActiveProcessorMask = f.provRet.dwActiveProcessorMask
                 /\ f.result.dwPageSize = f.provRet.dwPageSize

\* C21 witness: a second call of one hook, the provider reporting 64 processors
\* both times, got the value of the first call.
C21_Witness ==
    \E t \in Threads :
        /\ Called(t, "GetSystemInfo") /\ frame[t].arg.wasCalled
        /\ frame[t].provRet.dwNumberOfProcessors = MAXIMUM_PROCESSORS
        /\ prev.fn = "GetSystemInfo" /\ ~prev.arg.wasCalled
        /\ prev.provRet.dwNumberOfProcessors = MAXIMUM_PROCESSORS
        /\ frame[t].result.dwNumberOfProcessors = prev.result.dwNumberOfProcessors
        /\ frame[t].result.dwNumberOfProcessors = kNumCpus

(* ------------------------ claims about the lifecycle ------------------- *)
\* C22: no fixed or extended query in flight while RestoreDetours runs copies
\* out of cache storage that RestoreDetours has freed.
C22_NoReadOfFreedCache ==
    \A t \in Threads : frame[t].fn \in {"Fixed", "Ex"} => ~frame[t].readFreed

FixedEmpty == CachedCPUInfo = NULL /\ CachedCPUInfoCount = 0
ExEmpty ==
    CachedCPUInfoEx = NULL /\ CachedCPUInfoExBytes = 0 /\ CachedRelationship = RelationNone

C23_Step(t) ==
    /\ pc[t] = "R_entry" /\ ~installed /\ pc'[t] # "R_entry" =>
          /\ pc'[t] = "idle"
          /\ UNCHANGED <<lifeVars, CPUInfoLock, cacheVars, Orig>>
    /\ pc[t] = "R_entry" /\ installed /\ pc'[t] # "R_entry" => pc'[t] = "R_clean"
    /\ pc[t] = "R_clean" /\ pc'[t] # "R_clean" => pc'[t] = "R_reset" /\ CPUInfoLock' = t
    /\ pc[t] = "R_reset" /\ pc'[t] # "R_reset" =>
          /\ pc'[t] = "idle"
          /\ FixedEmpty' /\ ExEmpty'
          /\ CPUInfoLock' = 0
          /\ ~installed'

\* C23: RestoreDetours on an installed module takes the lock and returns with
\* the fixed cache null with count 0, the extended cache null with size 0 and tag
\* -1, the lock free and installed false, whatever the caches held; on a module
\* that is not installed it returns leaving the caches, the lock, the hooks and
\* installed as they were.
C23_DeactivateEmptiesCaches == [][\A t \in Threads : C23_Step(t)]_vars

\* C23 witness: RestoreDetours has returned on a module whose fixed cache had
\* served a query and whose extended cache had served the query before it.
C23_Witness ==
    \E t \in Threads :
        /\ Done(t) /\ frame[t].fn = "Restore" /\ ~installed
        /\ fixedResults # {}
        /\ prev.fn = "Ex" /\ Succeeded(prev) /\ prev.ReturnedLength > 0
        /\ FixedEmpty /\ ExEmpty /\ CPUInfoLock = 0

\* C24: a DllMain(DLL_PROCESS_ATTACH) that runs InstallDetours while installed
\* is true leaves the Orig pointers, the hooks, installed and both caches as they
\* were.
C24_SecondActivateRejected ==
    [][installed /\ detachPending' /\ attachPending' = attachPending - 1
          => UNCHANGED <<Orig, hooked, installed, cacheVars>>]_vars

\* C25: under fair scheduling and fair lock acquisition, every call of a fixed or
\* extended query and of RestoreDetours returns, and the thread does not hold the
\* lock when it has returned.
C25_EveryCallReturns ==
    \A t \in Threads : (pc[t] # "idle") ~> (pc[t] = "idle" /\ CPUInfoLock # t)

(* ------------------------ claims about the builds ---------------------- *)
\* Thread t has asked the provider twice and filtered the answer for a fixed
\* build, and has not left CacheCPUInfo yet.
HasQueriedForBuild(t) == pc[t] \in {"CF_alloc", "CF_count", "CF_copy"}

\* C26: a thread that has queried the provider for the fixed build holds the
\* lock, and no other thread has queried the provider for the build at the same
\* time.
C26_OneFixedBuilder ==
    \A t \in Threads :
       HasQueriedForBuild(t) =>
          /\ CPUInfoLock = t
          /\ \A u \in Threads \ {t} : ~HasQueriedForBuild(u)

\* A step of RestoreDetours under the lock.
RestoreStep == \E t \in Threads : pc[t] \in {"R_clean", "R_reset"} /\ pc'[t] # pc[t]

\* C27: once the fixed cache pointer is non-null, the pointer, the count and the
\* bytes of the block do not change in any step other than RestoreDetours's.
C27_FixedCacheOneWay ==
    [][CachedCPUInfo # NULL /\ ~RestoreStep => UNCHANGED fixedVars]_vars

\* The query of thread t has not entered a build: it found its cache as it needed it.
Hit(t) == frame[t].hasLength /\ ~frame[t].rebuilt

C28_Step(t) ==
    /\ /\ pc[t] = "F_check" /\ pc'[t] # "F_check"
       /\ CachedCPUInfo # NULL /\ frame[t].hasLength
       => pc'[t] = "F_cmp" /\ ~frame'[t].rebuilt /\ UNCHANGED <<CPUInfoLock, cacheVars>>
    /\ frame[t].fn = "Fixed" /\ Hit(t) => frame[t].provCalls = 0 /\ CPUInfoLock # t
    /\ /\ pc[t] = "X_lock" /\ pc'[t] # "X_lock"
       /\ CachedCPUInfoEx # NULL /\ CachedRelationship = frame[t].Relationship
       => pc'[t] = "X_reply" /\ ~frame'[t].rebuilt /\ UNCHANGED cacheVars
    /\ pc[t] = "X_reply" /\ pc'[t] # "X_reply" => UNCHANGED cacheVars
    /\ frame[t].fn = "Ex" /\ Hit(t) => frame[t].provCalls = 0

\* C28: a fixed query with a length that finds the fixed cache pointer set at
\* line 956 makes no provider call and never holds the lock; an extended query
\* that finds the cache present and tagged with its relationship makes no provider
\* call and leaves tag, size and bytes as they are.
C28_ProviderOnlyOnRebuild == [][\A t \in Threads : C28_Step(t)]_vars

\* C28 witness: a fixed query was served from the fixed cache with no provider
\* call right after an extended query was served from the extended cache with no
\* provider call.
C28_Witness ==
    \E t \in Threads :
        /\ Done(t) /\ frame[t].fn = "Fixed" /\ Succeeded(frame[t]) /\ Hit(t)
        /\ frame[t].provCalls = 0 /\ frame[t].ReturnedLength > 0
        /\ prev.fn = "Ex" /\ Succeeded(prev) /\ ~prev.rebuilt /\ prev.provCalls = 0
        /\ prev.ReturnedLength > 0

\* The cache of the entry point of frame f is absent.
CacheAbsent(f) == IF f.fn = "Fixed" THEN FixedEmpty ELSE ExEmpty

\* C29: a build whose size-discovery call succeeded, or failed with an error other
\* than ERROR_INSUFFICIENT_BUFFER, fails after that one provider call, with no
\* fill call and the cache absent and untagged; a build whose fill call failed
\* fails after the two calls with the cache absent and untagged.
C29_ProbeMustBeInsufficient ==
    \A t \in Threads :
       Done(t) /\ frame[t].fn \in {"Fixed", "Ex"} /\ frame[t].rebuilt =>
          LET f == frame[t]
          IN  /\ f.probe.ret \/ f.probe.gle # "ERROR_INSUFFICIENT_BUFFER" =>
                    /\ f.ret = "FALSE" /\ f.provCalls = 1 /\ f.fill = "none"
                    /\ CacheAbsent(f)
              /\ f.fill = "FALSE" =>
                    /\ f.ret = "FALSE" /\ f.provCalls = 2
                    /\ CacheAbsent(f)

\* C29 witness: the size-discovery call of an extended rebuild succeeded, right
\* after the cache had served another relationship; the query failed after one
\* provider call and the cache is absent.
C29_Witness ==
    \E t \in Threads :
        /\ Done(t) /\ frame[t].fn = "Ex" /\ frame[t].rebuilt
        /\ frame[t].probe.ret /\ frame[t].provCalls = 1 /\ frame[t].ret = "FALSE"
        /\ Succeeded(prev) /\ prev.fn = "Ex" /\ prev.Relationship # frame[t].Relationship
        /\ ExEmpty

\* C30: a fixed or extended query with a ReturnedLength makes at most two provider
\* calls; one that met an upstream failure returned FALSE after the failing call
\* (the first when size discovery failed, the second when the fill failed), left
\* the caller's buffer and *ReturnedLength as they were, and does not hold the lock.
C30_NoRetry ==
    \A t \in Threads :
       Done(t) /\ IsQuery(frame[t]) =>
          LET f == frame[t]
          IN  /\ f.provCalls <= 2
              /\ f.err = "upstream" =>
                    /\ f.ret = "FALSE"
                    /\ f.provCalls = IF f.fill = "none" THEN 1 ELSE 2
                    /\ f.Buffer = Untouched
                    /\ f.ReturnedLength = f.inLength
                    /\ CPUInfoLock # t

\* C30 witness: an extended query with a buffer large enough for the whole topology
\* returned FALSE after the fill call failed: two provider calls, nothing written.
C30_Witness ==
    \E t \in Threads :
        /\ Done(t) /\ frame[t].fn = "Ex" /\ frame[t].hasLength /\ frame[t].hasBuffer
        /\ frame[t].inLength = BufferLarge
        /\ frame[t].err = "upstream" /\ frame[t].fill = "FALSE"
        /\ frame[t].provCalls = 2 /\ frame[t].ret = "FALSE"
        /\ frame[t].Buffer = Untouched /\ frame[t].ReturnedLength = BufferLarge
        /\ CPUInfoLock = 0

(* ------------------------ claims about the walk ------------------------ *)
KnownKinds == ProcessorKinds \cup NumaKinds \cup {RelationCache, RelationGroup}
HasUnknown(raw) == \E i \in 1 .. Len(raw) : raw[i].Relationship \notin KnownKinds

\* C31: an extended rebuild whose provider answer holds records of an unknown
\* kind, even when nothing is kept, does not fail: the query is answered from the
\* cache, the cache is tagged with the requested relationship, and no cached
\* record is of an unknown kind.
C31_UnknownKindsDropped ==
    \A t \in Threads :
       /\ hooked /\ Done(t) /\ frame[t].fn = "Ex" /\ frame[t].rebuilt
       /\ HasUnknown(rawEx[frame[t].Relationship])
       => /\ Served(frame[t])
          /\ CachedRelationship = frame[t].Relationship
          /\ CachedCPUInfoEx # NULL
          /\ CachedCPUInfoExBytes = SumSize(exMem)
          /\ \A j \in 1 .. Len(exMem) : exMem[j].Relationship \in KnownKinds

\* C31 witness: the provider answered with records of an unknown kind only; the
\* rebuild succeeded with an empty, tagged cache and the query returned TRUE with
\* a length of 0.
C31_Witness ==
    \E t \in Threads :
        /\ hooked /\ Done(t) /\ frame[t].fn = "Ex" /\ frame[t].rebuilt
        /\ Len(rawEx[frame[t].Relationship]) = MaxRecs
        /\ \A i \in 1 .. MaxRecs : rawEx[frame[t].Relationship][i].Relationship = RelationUnknown
        /\ frame[t].ret = "TRUE" /\ frame[t].ReturnedLength = 0
        /\ CachedRelationship = frame[t].Relationship
        /\ CachedCPUInfoEx # NULL /\ CachedCPUInfoExBytes = 0 /\ exMem = <<>>

\* C32: every Core, Die, Module, Package, NumaNode and Cache record of a Ready
\* extended cache names processor group 0 in its group entry.
C32_OnlyGroupZero ==
    ExReady =>
       \A j \in 1 .. Len(exMem) :
          exMem[j].Relationship # RelationGroup => exMem[j].GroupMask[1].Group = 0

(* --------------------- claims about error signalling ------------------- *)
\* C34: SetThreadAffinityMask hands 0, the failure value, back to the caller only
\* when the provider returned 0: a non-zero previous mask from the provider gives
\* a non-zero return value.
C34_ThreadAffinityFailsOnlyUpstream ==
    \A t \in Threads :
       Called(t, "SetThreadAffinityMask") /\ frame[t].provRet.mask # {} =>
          frame[t].result.mask # {} /\ frame[t].ret = "TRUE"

(* ---------------- claims about the extended cache state ---------------- *)
\* C35: whenever nobody holds CPUInfoLock, the extended cache pointer is null
\* exactly when the tag is -1; a null pointer comes with a size of 0; a non-null
\* pointer comes with the whole filtered provider answer for the tagged
\* relationship and its byte size.
C35_ExCacheConsistent ==
    CPUInfoLock = 0 =>
       /\ CachedCPUInfoEx = NULL <=> CachedRelationship = RelationNone
       /\ CachedCPUInfoEx = NULL => CachedCPUInfoExBytes = 0 /\ exMem = <<>>
       /\ CachedCPUInfoEx # NULL =>
             /\ CachedRelationship \in QueryRels
             /\ exMem = FilterEx(rawEx[CachedRelationship])
             /\ CachedCPUInfoExBytes = SumSize(exMem)

\* C35 witness: no detach has come, the lock is free and the cache is empty and
\* untagged although another thread's query for the other relationship was
\* answered with success: the rebuild that replaced that Ready cache failed in
\* its allocation.
C35_Witness ==
    /\ hooked /\ CPUInfoLock = 0
    /\ CachedCPUInfoEx = NULL /\ CachedRelationship = RelationNone /\ CachedCPUInfoExBytes = 0
    /\ \E t, u \in Threads :
          /\ Done(t) /\ frame[t].fn = "Ex" /\ frame[t].err = "alloc"
          /\ Done(u) /\ Succeeded(frame[u]) /\ frame[u].fn = "Ex"
          /\ frame[u].Relationship # frame[t].Relationship

\* The positions between an AcquireSRWLockExclusive and its release: lines
\* 816-829, 997-1015 and 1534-1546.  The extended cache variables are touched at
\* X_store, X_reply and R_reset, and in the step that takes the lock at X_lock.
LockedLabels == {"CF_count", "CF_copy", "X_store", "X_reply", "R_reset"}

\* C36: a thread holds CPUInfoLock exactly while it is between an acquire and the
\* matching release, so it holds it at every position that touches the extended
\* cache variables, never holds it once it has returned, and the lock is free
\* whenever every thread is outside the entry points.
C36_LockDiscipline ==
    /\ CPUInfoLock \in {0} \cup Threads
    /\ \A t \in Threads : CPUInfoLock = t <=> pc[t] \in LockedLabels
    /\ (\A t \in Threads : pc[t] = "idle") => CPUInfoLock = 0

\* C36 witness: one thread holds the lock in the extended reply after its rebuild
\* while a second waits at its acquire.
C36_Witness ==
    \E t, u \in Threads :
        /\ pc[t] = "X_reply" /\ CPUInfoLock = t /\ frame[t].rebuilt
        /\ pc[u] \in {"X_lock", "CF_alloc", "R_clean"}

\* C39: a cached Group record whose provider record had ActiveProcessorCount equal
\* to the number of bits of ActiveProcessorMask has ActiveProcessorCount equal to
\* the number of bits of its clamped mask, with ActiveProcessorCount at most
\* MaximumProcessorCount at most the virtual count.
C39_GroupCountMatchesMask ==
    ExReady =>
       \A j \in 1 .. Len(exMem) :
          LET r == exMem[j]
              o == ExRaw[Nth(ExKept, j)]
          IN  /\ r.Relationship = RelationGroup
              /\ o.GroupInfo[1].ActiveProcessorCount =
                    Cardinality(o.GroupInfo[1].ActiveProcessorMask)
              => /\ r.GroupInfo[1].ActiveProcessorCount =
                       Cardinality(r.GroupInfo[1].ActiveProcessorMask)
                 /\ r.GroupInfo[1].ActiveProcessorCount <= r.GroupInfo[1].MaximumProcessorCount
                 /\ r.GroupInfo[1].MaximumProcessorCount <= kNumCpus

(* ----------------- claims about the walk, byte by byte ----------------- *)
\* C33: every word the walk of the extended rebuild reads or writes, and every
\* word it moves or copies, lies inside the scratch buffer, that is before the
\* length the provider returned, whatever the Size fields of the records are.
C33_WalkStaysInBuffer == walk.top <= walk.end

\* The provider's records as the chain of Size fields gives them.
OrigChain == ChainOffsets(walk.orig, 0, walk.end)
OrigKind(i) == Field(Rd(walk.orig, i), 0, 32)
OrigSize(i) == Field(Rd(walk.orig, i), 32, 32)

\* Every record of the chain declares at least the single-group layout size of
\* its kind (at least its own header, for a kind that has no layout here).
WellSizedChain(chain) ==
    /\ walk.end > 0
    /\ \A k \in 1 .. Len(chain) :
          OrigSize(chain[k]) >=
             (IF OrigKind(chain[k]) \in KnownKinds THEN LayoutSize(OrigKind(chain[k]))
              ELSE WordBytes)
WellSized == WellSizedChain(OrigChain)

\* C37: when every provider record declares at least its single-group layout
\* size, at every turn of the loop the write cursor is not beyond the read
\* cursor, the records visited so far are the first records of the provider's
\* chain, each once and in order (all of them when the loop has ended), the bytes
\* from the read cursor on are still the provider's, and the bytes written do not
\* exceed the length the provider returned.
C37_CompactionInPlace ==
    LET chain == OrigChain
    IN  WellSizedChain(chain) =>
       /\ walk.write <= walk.read
       /\ Len(walk.visited) <= Len(chain)
       /\ walk.visited = SubSeq(chain, 1, Len(walk.visited))
       /\ walk.read >= walk.end => walk.visited = chain
       /\ \A i \in walk.read .. (walk.end - 1) : Rd(walk.mem, i) = Rd(walk.orig, i)
       /\ walk.write <= walk.end

\* C37 witness: the loop has ended after a dropped record and a kept record that
\* declared more than its single-group size and was moved down to the start of
\* the buffer.
C37_Witness ==
    /\ WellSized
    /\ walk.read >= walk.end
    /\ Len(walk.visited) = 2 /\ walk.kept = <<0>>
    /\ OrigSize(walk.visited[2]) > LayoutSize(OrigKind(walk.visited[2]))
    /\ Rd(walk.mem, 0) # Rd(walk.orig, 0)
    /\ walk.write < walk.end

\* The sum of the Size fields found at the offsets offs of the bytes mem.
RECURSIVE SumSizesAt(_, _)
SumSizesAt(mem, offs) ==
    IF offs = <<>> THEN 0
    ELSE Field(Rd(mem, Head(offs)), 32, 32) + SumSizesAt(mem, Tail(offs))

\* C38: the cached bytes are a chain: following Size from offset 0 finds a header
\* exactly at each place the walk put a kept record and nowhere else, and ends
\* exactly at CachedCPUInfoExBytes, which is the sum of the kept records' Size
\* fields.
C38_CacheIsChain ==
    ExReady =>
       /\ CachedCPUInfoExBytes = WordBytes * Len(walk.cached)
       /\ ChainOffsets(walk.cached, 0, Len(walk.cached)) = walk.kept
       /\ SumSizesAt(walk.cached, walk.kept) = CachedCPUInfoExBytes
       /\ Len(exMem) = Len(walk.kept)

\* C38 witness: the cache holds a Group record and a Core record, 128 bytes, cut
\* down from a provider answer that was longer.
C38_Witness ==
    /\ ExReady
    /\ Len(walk.kept) = 2
    /\ CachedCPUInfoExBytes = LayoutSize(RelationGroup) + LayoutSize(RelationProcessorCore)
    /\ CachedCPUInfoExBytes < WordBytes * walk.end
    /\ Len(walk.visited) = 2

====
